---- MODULE Spec2Model ----
(***************************************************************************)
(* Verification model of the thinkingscript runtime ("think").             *)
(*                                                                         *)
(*   SpecApproval  internal/approval: Approver.ApprovePath over the        *)
(*                 global and the thought policy.                          *)
(*   SpecSandbox   internal/sandbox: Sandbox.resolvePath and the fs        *)
(*                 bridges (fs.glob left out) and require, over a small    *)
(*                 file system with a symlink.                             *)
(*   SpecWritable  the same bridges in a sandbox built with WritablePaths; *)
(*                 only callers and tests of that resolution are in the    *)
(*                 tree, so it follows section 4.5 of the design spec.     *)
(*   SpecRun       runScript: the memory.js attempt, then Agent.Run with   *)
(*                 one step per Provider call and per tool execution.      *)
(*   SpecRunFair   SpecRun with every awaited call returning.              *)
(*   SpecPrompt    internal/approval/ttylock.go: two invocations that      *)
(*                 prompt on their terminals under the prompt lock.        *)
(*   SpecPromptFair SpecPrompt with every shown prompt answered or         *)
(*                 interrupted and a free lock taken by who waits for it.  *)
(*   SpecThought   the head of runScript over successive invocations of    *)
(*                 one thought: fingerprint, cache directory, policy.json  *)
(*                 and BootstrapDefaults.                                  *)
(*   SpecMemory    the same invocations with the memory.js attempt and     *)
(*                 the agent writing memory.js, and no requests.           *)
(*   SpecNet       internal/sandbox/bridge_net.go: net.fetch up to the     *)
(*                 request, with Approver.ApproveNet behind it.            *)
(*   SpecMatch     internal/approval/policy.go: pathMatches and MatchPath  *)
(*                 on one policy level and one request.                    *)
(*   SpecSave      internal/approval/policy.go: Policy.Save step by step,  *)
(*                 with the saving process killed and the file read at     *)
(*                 any point.                                              *)
(*                                                                         *)
(* Paths are sequences of names; the string form of <<"etc","shadow">> is  *)
(* "/etc/shadow".  Mode strings are the sets of their characters.          *)
(***************************************************************************)
EXTENDS Naturals, Integers, Sequences, FiniteSets, TLC

VARIABLES
    \* ---- approval.Approver
    thoughtPolicy,   \* a.thoughtPolicy.Paths: [default, entries]
    globalPolicy,    \* a.globalPolicy.Paths: [default, entries, protected]
    diskPolicy,      \* <thoughtDir>/policy.json as last saved: "absent" or a policy
    globalFile,      \* <home>/policy.json: "absent" or a policy
    sessionAllowFS,  \* a.sessionAllowFS
    isTTY,           \* a.isTTY
    exited,          \* the process ended in os.Exit(130) inside a prompt
    lastReq,         \* the last ApprovePath call and what it returned
    \* ---- sandbox.Sandbox
    cfg,             \* s.cfg and s.allowedPaths, as sandbox.New leaves them
    fs,              \* file system: path -> node, absent paths not in the domain
    sbCall,          \* the last bridge call and its outcome
    sbCalls,         \* bridge calls the script has made
    \* ---- runScript and agent.Agent
    pc,              \* where runScript stands: "boot", "start", "chat", "exec", "done"
    boot,            \* what the memory.js attempt met: [memory, run]
    resumeContext,   \* resumeContext of runScript, then a.resumeContext
    maxIterations,   \* a.maxIterations
    iter,            \* the loop variable i of Agent.Run
    messages,        \* the conversation: role and kind of each message in order
    toolUses,        \* tool_use blocks of the reply at hand (the last assistant message)
    stopReason,      \* resp.StopReason of the reply at hand
    tu,              \* index in toolUses of the tool_use to execute next
    resultBlocks,    \* resultBlocks of the iteration (the last tool_result message)
    outcomes,        \* what registry.Execute returned for each tool of the reply so far
    providerCalls,   \* calls of provider.Chat made
    ctxCancelled,    \* ctx.Err() != nil
    runResult,       \* what runScript returned, "" while it runs
    \* ---- concurrent invocations and the prompt lock
    prompter,        \* each invocation: its home, its stderr, where it stands
    flock,           \* lock files held with LOCK_EX: lock file -> holder
    \* ---- successive invocations of one thought
    cache,           \* <home>/cache: fingerprint -> what its directory holds
    invocation,      \* the invocation at hand, or the last one
    clock,           \* time.Now(), in invocations started so far
    memoryFile,      \* <thoughtDir>/memory.js: whether it is there, for which script
    \* ---- net.fetch and Approver.ApproveNet
    netApprover,     \* cfg.ApproveNet and the Approver's net state
    lastFetch,       \* the last net.fetch call and how it ended
    \* ---- PathPolicy.MatchPath on its own
    matchCall,       \* a policy level and a request, and what matching gives
    \* ---- Policy.Save on its own
    saving           \* policy.json on disk, the process writing it, a reader

approvalVars == <<thoughtPolicy, globalPolicy, diskPolicy, globalFile, sessionAllowFS, isTTY, exited, lastReq>>
sandboxVars  == <<cfg, fs, sbCall, sbCalls>>
runVars      == <<pc, boot, resumeContext, maxIterations, iter, messages, toolUses,
                 stopReason, tu, resultBlocks, outcomes, providerCalls,
                 ctxCancelled, runResult>>
promptVars   == <<prompter, flock>>
thoughtVars  == <<cache, invocation, clock, memoryFile>>
netVars      == <<netApprover, lastFetch>>
matchVars    == <<matchCall>>
saveVars     == <<saving>>

-----------------------------------------------------------------------------
(* Strings and paths                                                       *)

\* The names used as path components.
Names == {"etc", "shadow", "thought", "policy.json", "policy.json.bak",
          "memory.js", "sub", "allowed", "forbidden", "escape", "secret",
          "new", "f", "lib", "x", "workspace", "memories", "cwd", "cwd2"}

\* strings.HasPrefix on two names: the proper prefixes among Names, by spelling.
NameHasPrefix(s, p) ==
    s = p \/ <<p, s>> \in {<<"policy.json", "policy.json.bak">>, <<"cwd", "cwd2">>}

\* len() of a name.
NameLen(n) ==
    CASE n = "etc" -> 3
      [] n = "sub" -> 3
      [] n = "shadow" -> 6
      [] n = "thought" -> 7
      [] n = "memory.js" -> 9
      [] n = "policy.json" -> 11
      [] n = "policy.json.bak" -> 15
      [] n = "allowed" -> 7
      [] n = "forbidden" -> 9
      [] n = "escape" -> 6
      [] n = "secret" -> 6
      [] n = "new" -> 3
      [] n = "lib" -> 3
      [] n = "cwd" -> 3
      [] n = "cwd2" -> 4
      [] n = "memories" -> 8
      [] n = "workspace" -> 9
      [] OTHER -> 1

RECURSIVE SumLen(_)
SumLen(p) == IF p = <<>> THEN 0 ELSE 1 + NameLen(Head(p)) + SumLen(Tail(p))

\* len(path) of the string form ("/" for the root).
PathStrLen(p) == IF p = <<>> THEN 1 ELSE SumLen(p)

\* p is a component-wise prefix of s.
IsPrefix(p, s) == Len(p) <= Len(s) /\ SubSeq(s, 1, Len(p)) = p

\* strings.HasPrefix(s, p) on the string forms of two clean absolute paths.
StrHasPrefix(s, p) ==
    IF p = <<>> THEN TRUE
    ELSE /\ Len(p) <= Len(s)
         /\ SubSeq(s, 1, Len(p) - 1) = SubSeq(p, 1, Len(p) - 1)
         /\ NameHasPrefix(s[Len(p)], p[Len(p)])

\* strings.HasPrefix(s, p + "/"): p is a proper ancestor of s.  The root's
\* string form is "/", so p + "/" is "//", which no clean path starts with.
StrHasDirPrefix(s, p) == p # <<>> /\ Len(p) < Len(s) /\ IsPrefix(p, s)

-----------------------------------------------------------------------------
(* internal/approval/policy.go                                             *)

ApprovalAllow  == "allow"
ApprovalDeny   == "deny"
ApprovalPrompt == "prompt"
Approvals == {ApprovalAllow, ApprovalDeny, ApprovalPrompt}

SourceDefault == "default"
SourcePrompt  == "prompt"
SourceConfig  == "config"

\* A PathEntry literal; Created is left at the zero time.
PathEntry(p, m, a, s) ==
    [path |-> p, mode |-> m, approval |-> a, source |-> s, created |-> 0]

\* NewPolicy().Paths
NewPolicy == [default |-> ApprovalPrompt, entries |-> <<>>]

pathMatchesExactOnly(pattern, path) == pattern = path

pathMatchesRawPrefix(pattern, path) == StrHasPrefix(path, pattern)

pathMatches(pattern, path) == pattern = path \/ StrHasDirPrefix(path, pattern)

\* The loop of MatchPath over entries[1..i]: the index of the best match so
\* far (0 for nil) -- a later entry replaces it only when strictly longer.
RECURSIVE MatchPathIdx(_, _, _)
MatchPathIdx(entries, targetPath, i) ==
    IF i = 0 THEN 0
    ELSE LET best == MatchPathIdx(entries, targetPath, i - 1)
             bestLen == IF best = 0 THEN 0 ELSE PathStrLen(entries[best].path)
         IN IF pathMatches(entries[i].path, targetPath)
               /\ PathStrLen(entries[i].path) > bestLen
            THEN i ELSE best

\* PathPolicy.MatchPath: index of the matching entry, 0 for nil.
MatchPath(entries, targetPath) == MatchPathIdx(entries, targetPath, Len(entries))

\* AddPathEntry putting the new entry in front.
AddPathEntryFirst(policy, p, m, a, s) ==
    [policy EXCEPT !.entries =
        <<[PathEntry(p, m, a, s) EXCEPT !.created = clock]>> \o @]

\* Policy.AddPathEntry, Created being time.Now().
AddPathEntry(policy, p, m, a, s) ==
    [policy EXCEPT !.entries =
        Append(@, [PathEntry(p, m, a, s) EXCEPT !.created = clock])]

-----------------------------------------------------------------------------
(* internal/approval/approval.go                                           *)

ThoughtDir == <<"thought">>
PolicyPath == ThoughtDir \o <<"policy.json">>

opToModeChar(op) ==
    CASE op = "read" -> "r"
      [] op = "list" -> "r"
      [] op = "write" -> "w"
      [] op = "delete" -> "d"
      [] OTHER -> "r"

hasMode(mode, char) == char \in mode

\* The privilege-escalation guard at the head of ApprovePath.
policyGuardExactOnly(path) == path = PolicyPath

policyGuard(path) == path = PolicyPath \/ StrHasPrefix(path, PolicyPath)

\* The scan of globalPolicy.Paths.Protected from entry i on: the verdict of the
\* first matching entry that carries the mode and says allow or deny.
RECURSIVE protectedScan(_, _, _, _)
protectedScan(protected, path, modeChar, i) ==
    IF i > Len(protected) THEN "none"
    ELSE IF /\ pathMatches(protected[i].path, path)
            /\ hasMode(protected[i].mode, modeChar)
            /\ protected[i].approval \in {ApprovalDeny, ApprovalAllow}
         THEN protected[i].approval
         ELSE protectedScan(protected, path, modeChar, i + 1)

protectedVerdictSkipped(path, modeChar) == "none"

protectedVerdict(path, modeChar) ==
    protectedScan(globalPolicy.protected, path, modeChar, 1)

\* One policy level: the best match decides if it carries the mode and says
\* allow or deny; everything else falls through.
entriesVerdict(entries, path, modeChar) ==
    LET i == MatchPath(entries, path)
    IN IF i # 0 /\ hasMode(entries[i].mode, modeChar)
          /\ entries[i].approval \in {ApprovalAllow, ApprovalDeny}
       THEN entries[i].approval ELSE "none"

defaultsVerdict ==
    IF thoughtPolicy.default = ApprovalAllow THEN ApprovalAllow
    ELSE IF thoughtPolicy.default = ApprovalDeny THEN ApprovalDeny
    ELSE IF globalPolicy.default = ApprovalAllow THEN ApprovalAllow
    ELSE IF globalPolicy.default = ApprovalDeny THEN ApprovalDeny
    ELSE "none"

\* ApprovePath looking at sessionAllowFS after the policies and defaults.
pathDecisionSessionLast(op, path) ==
    LET modeChar == opToModeChar(op)
        pv == protectedVerdict(path, modeChar)
        tv == entriesVerdict(thoughtPolicy.entries, path, modeChar)
        gv == entriesVerdict(globalPolicy.entries, path, modeChar)
    IN IF policyGuard(path) THEN ApprovalDeny
       ELSE IF pv # "none" THEN pv
       ELSE IF tv # "none" THEN tv
       ELSE IF gv # "none" THEN gv
       ELSE IF defaultsVerdict # "none" THEN defaultsVerdict
       ELSE IF sessionAllowFS THEN ApprovalAllow
       ELSE IF ~isTTY THEN ApprovalDeny
       ELSE "prompt"

\* ApprovePath asking the user whether or not stderr is a terminal.
pathDecisionAsksOffTTY(op, path) ==
    LET modeChar == opToModeChar(op)
        pv == protectedVerdict(path, modeChar)
        tv == entriesVerdict(thoughtPolicy.entries, path, modeChar)
        gv == entriesVerdict(globalPolicy.entries, path, modeChar)
    IN IF policyGuard(path) THEN ApprovalDeny
       ELSE IF pv # "none" THEN pv
       ELSE IF sessionAllowFS THEN ApprovalAllow
       ELSE IF tv # "none" THEN tv
       ELSE IF gv # "none" THEN gv
       ELSE IF defaultsVerdict # "none" THEN defaultsVerdict
       ELSE "prompt"

\* ApprovePath up to the prompt: "allow", "deny", or "prompt" when the user
\* has to be asked.
pathDecision(op, path) ==
    LET modeChar == opToModeChar(op)
        pv == protectedVerdict(path, modeChar)
        tv == entriesVerdict(thoughtPolicy.entries, path, modeChar)
        gv == entriesVerdict(globalPolicy.entries, path, modeChar)
    IN IF policyGuard(path) THEN ApprovalDeny
       ELSE IF pv # "none" THEN pv
       ELSE IF sessionAllowFS THEN ApprovalAllow
       ELSE IF tv # "none" THEN tv
       ELSE IF gv # "none" THEN gv
       ELSE IF defaultsVerdict # "none" THEN defaultsVerdict
       ELSE IF ~isTTY THEN ApprovalDeny
       ELSE "prompt"

\* What the user can do with a prompt; "interrupt" is Ctrl-C, "lockerr" is a
\* failure to take the prompt lock.
PromptAnswers == {"once", "session", "always", "deny", "interrupt", "lockerr"}

\* Entries the user may add by answering prompts in one run.
MaxPromptEntries == 1

promptEntries(policy) ==
    Cardinality({i \in 1..Len(policy.entries) : policy.entries[i].source = SourcePrompt})

Request(op, path, verdict, prompted, answer) ==
    [op |-> op, path |-> path, verdict |-> verdict, prompted |-> prompted,
     answer |-> answer]

NoRequest == Request("none", <<>>, "none", FALSE, "none")

\* filepath.Join(config.HomeDir(), "policy.json")
GlobalPolicyPath == <<"home", "policy.json">>

\* saveThoughtPolicy writing the file the global policy was loaded from.
savePathGlobal(thoughtDir, globalPolicyPath) == globalPolicyPath

\* The file saveThoughtPolicy writes.
savePath(thoughtDir, globalPolicyPath) == thoughtDir \o <<"policy.json">>

\* What the file at path holds after policy.Save(target), having held file.
Save(policy, target, path, file) == IF path = target THEN policy ELSE file

\* Approver.ApprovePath(op, path), the prompt and the save included.
ApprovePath(op, path, answer) ==
    /\ ~exited
    /\ LET d == pathDecision(op, path)
           modeChar == opToModeChar(op)
       IN IF d # "prompt"
          THEN /\ answer = "none"
               /\ lastReq' = Request(op, path, d, FALSE, "none")
               /\ UNCHANGED <<thoughtPolicy, diskPolicy, globalFile,
                              sessionAllowFS, exited>>
          ELSE /\ answer \in PromptAnswers
               /\ answer \in {"always", "deny"} =>
                      promptEntries(thoughtPolicy) < MaxPromptEntries
               /\ thoughtPolicy' =
                      CASE answer = "always" ->
                             AddPathEntry(thoughtPolicy, path, {modeChar},
                                          ApprovalAllow, SourcePrompt)
                        [] answer = "deny" ->
                             AddPathEntry(thoughtPolicy, path, {modeChar},
                                          ApprovalDeny, SourcePrompt)
                        [] OTHER -> thoughtPolicy
               /\ LET target == savePath(ThoughtDir, GlobalPolicyPath)
                  IN IF answer \in {"always", "deny"}
                     THEN /\ diskPolicy' =
                                Save(thoughtPolicy', target, PolicyPath, diskPolicy)
                          /\ globalFile' =
                                Save(thoughtPolicy', target, GlobalPolicyPath, globalFile)
                     ELSE UNCHANGED <<diskPolicy, globalFile>>
               /\ sessionAllowFS' = (sessionAllowFS \/ answer = "session")
               /\ exited' = (answer = "interrupt")
               /\ lastReq' = Request(op, path,
                      CASE answer \in {"always", "once", "session"} -> ApprovalAllow
                        [] answer = "deny" -> ApprovalDeny
                        [] answer = "interrupt" -> "exit"
                        [] OTHER -> "error",
                      TRUE, answer)
    /\ UNCHANGED <<globalPolicy, isTTY>>

-----------------------------------------------------------------------------
(* The approval requests and policies the model draws from                 *)

Etc       == <<"etc">>
Shadow    == <<"etc", "shadow">>
MemoryJS  == ThoughtDir \o <<"memory.js">>
PolicySub == PolicyPath \o <<"sub">>
PolicyBak == ThoughtDir \o <<"policy.json.bak">>

ReqOps   == {"read", "write", "delete"}
ReqPaths == {Shadow, MemoryJS, PolicyPath, PolicySub, PolicyBak}

RWD == {"r", "w", "d"}

ThoughtEntryPool ==
    { PathEntry(Etc, RWD, ApprovalAllow, SourceConfig),
      PathEntry(ThoughtDir, RWD, ApprovalAllow, SourceConfig) }

ProtectedPool ==
    { PathEntry(Etc, RWD, ApprovalDeny, SourceConfig),
      PathEntry(Shadow, {"r"}, ApprovalAllow, SourceConfig),
      PathEntry(ThoughtDir, RWD, ApprovalAllow, SourceConfig) }

GlobalEntryPool == { PathEntry(Etc, {"r"}, ApprovalAllow, SourceConfig) }

\* The lists of up to two distinct entries of a pool, in either order.
Lists(pool) ==
    {<<>>} \cup {<<e>> : e \in pool}
           \cup {l \in {<<e, f>> : e \in pool, f \in pool} : l[1] # l[2]}

ApproverLoaded ==
    /\ \E d \in Approvals, es \in Lists(ThoughtEntryPool) :
           thoughtPolicy = [default |-> d, entries |-> es]
    /\ \E d \in Approvals, es \in {<<>>} \cup {<<e>> : e \in GlobalEntryPool},
          ps \in Lists(ProtectedPool) :
           globalPolicy = [default |-> d, entries |-> es, protected |-> ps]
    /\ globalFile = globalPolicy
    /\ diskPolicy = thoughtPolicy
    /\ sessionAllowFS = FALSE
    /\ isTTY \in BOOLEAN
    /\ exited = FALSE
    /\ lastReq = NoRequest

IdleApproval ==
    /\ thoughtPolicy = NewPolicy
    /\ globalPolicy = [default |-> ApprovalPrompt, entries |-> <<>>, protected |-> <<>>]
    /\ diskPolicy = "absent"
    /\ globalFile = "absent"
    /\ sessionAllowFS = FALSE
    /\ isTTY = FALSE
    /\ exited = FALSE
    /\ lastReq = NoRequest

\* A bridge call as the script observes it: the bridge and its path arguments,
\* whether it returned normally (for fs.exists: returned true), what each of
\* its resolvePath calls returned, and the files and directories the call
\* read, changed, created or removed.
Call(bridge, args, ok, checks, touched) ==
    [bridge |-> bridge, args |-> args, ok |-> ok, checks |-> checks,
     touched |-> touched]

NoCall == Call("none", <<>>, FALSE, {}, {})

\* No sandbox constructed.
IdleSandbox ==
    /\ cfg = [workDir |-> <<>>, allowedPaths |-> {}, hasApprovePath |-> FALSE]
    /\ fs = <<>>
    /\ sbCall = NoCall
    /\ sbCalls = 0

NoBoot == [memory |-> "none", run |-> "none"]

\* No invocation of runScript under way.
IdleRun ==
    /\ pc = "off"
    /\ boot = NoBoot
    /\ resumeContext = <<>>
    /\ maxIterations = 0
    /\ iter = 0
    /\ messages = <<>>
    /\ toolUses = <<>>
    /\ stopReason = ""
    /\ tu = 0
    /\ resultBlocks = <<>>
    /\ outcomes = <<>>
    /\ providerCalls = 0
    /\ ctxCancelled = FALSE
    /\ runResult = ""

vars == <<thoughtPolicy, globalPolicy, diskPolicy, globalFile, sessionAllowFS, isTTY, exited,
          lastReq, cfg, fs, sbCall, sbCalls, pc, boot, resumeContext,
          maxIterations, iter, messages, toolUses, stopReason, tu, resultBlocks,
          outcomes, providerCalls, ctxCancelled, runResult, prompter, flock,
          cache, invocation, clock, memoryFile, netApprover, lastFetch, matchCall, saving>>

\* No invocation is modelled as a process of its own.
IdlePrompt ==
    /\ prompter = <<>>
    /\ flock = <<>>

\* The components a specification leaves aside, beyond the three above.
\* No invocation has been started on any thought.
NoMemoryJS == [exists |-> FALSE, data |-> <<>>]

NoInvocation ==
    [phase |-> "none", fp |-> <<>>, mode |-> "", check |-> FALSE,
     wiped |-> FALSE, ok |-> FALSE, fps |-> <<>>, bootstrapped |-> FALSE,
     data |-> <<>>, boot |-> "none", ran |-> NoMemoryJS]

IdleThought ==
    /\ cache = <<>>
    /\ invocation = NoInvocation
    /\ clock = 0
    /\ memoryFile = NoMemoryJS

\* No sandbox with a net bridge, no Approver behind it.
NoNetApprover == [wired |-> FALSE]

\* net.fetch has not been called.
NoFetch == [result |-> "none"]

IdleNet ==
    /\ netApprover = NoNetApprover
    /\ lastFetch = NoFetch

\* No policy level is looked at on its own.
NoMatch == [called |-> FALSE, entries |-> <<>>]

IdleMatch == matchCall = NoMatch

\* No policy.json and nobody saving.
NoFile == [exists |-> FALSE, perm |-> "", complete |-> FALSE, entries |-> <<>>]
NoSave == [pc |-> "none", file |-> NoFile, data |-> <<>>, prev |-> NoFile,
           saves |-> 0, read |-> "none"]

IdleSave == saving = NoSave

restVars == <<promptVars, thoughtVars, netVars, matchVars, saveVars>>
IdleRest == IdlePrompt /\ IdleThought /\ IdleNet /\ IdleMatch /\ IdleSave

ApprovePathCall ==
    \E op \in ReqOps, path \in ReqPaths, answer \in PromptAnswers \cup {"none"} :
        /\ ApprovePath(op, path, answer)
        /\ UNCHANGED <<sandboxVars, runVars, restVars>>

NextApproval == ApprovePathCall

InitApproval == ApproverLoaded /\ IdleSandbox /\ IdleRun /\ IdleRest

SpecApproval == InitApproval /\ [][NextApproval]_vars

-----------------------------------------------------------------------------
(* Properties of the approval engine                                       *)

\* path is policy.json of the thought or lies below it.
IsPolicyTarget(path) == IsPrefix(PolicyPath, path)

\* Entry e covers the path (the path itself or a descendant) and carries the
\* mode of the operation.
Covers(e, op, path) == IsPrefix(e.path, path) /\ opToModeChar(op) \in e.mode

\* C1: in every reachable state a write or delete aimed at
\* <thoughtDir>/policy.json or below it is denied -- the request just
\* answered was denied, and so would any such request made now -- whatever
\* the policies hold and whether or not the session-wide allow is set.
C1_PolicyFileDenied ==
    /\ (lastReq.op \in {"write", "delete"} /\ IsPolicyTarget(lastReq.path))
           => lastReq.verdict = ApprovalDeny
    /\ \A op \in {"write", "delete"}, path \in ReqPaths :
           IsPolicyTarget(path) => pathDecision(op, path) = ApprovalDeny

\* C1 witness: a write below policy.json was answered after the user granted
\* the session-wide allow, with a thought entry that allows the directory.
C1_Witness ==
    /\ lastReq.op = "write" /\ lastReq.path = PolicySub
    /\ sessionAllowFS
    /\ \E i \in 1..Len(thoughtPolicy.entries) :
           /\ Covers(thoughtPolicy.entries[i], "write", PolicySub)
           /\ thoughtPolicy.entries[i].approval = ApprovalAllow

\* Some protected deny entry of the global policy covers the request.
ProtectedDenyCovers(op, path) ==
    \E i \in 1..Len(globalPolicy.protected) :
        /\ Covers(globalPolicy.protected[i], op, path)
        /\ globalPolicy.protected[i].approval = ApprovalDeny

\* ... and no protected allow entry covering the request stands before it.
ProtectedDenyFirst(op, path) ==
    \E i \in 1..Len(globalPolicy.protected) :
        /\ Covers(globalPolicy.protected[i], op, path)
        /\ globalPolicy.protected[i].approval = ApprovalDeny
        /\ \A j \in 1..(i - 1) :
               ~(/\ Covers(globalPolicy.protected[j], op, path)
                 /\ globalPolicy.protected[j].approval = ApprovalAllow)

\* C2 as stated: a protected deny entry that covers the request makes the
\* request denied.
C2_ProtectedDenyAlwaysWins ==
    (lastReq.op \in ReqOps /\ ProtectedDenyCovers(lastReq.op, lastReq.path))
        => lastReq.verdict = ApprovalDeny

\* C2 amended: a protected deny entry that covers the request, with no
\* protected allow entry covering it earlier in the protected list, makes the
\* request denied whatever the thought policy, its default and the session
\* flag say.
C2_ProtectedDenyWins ==
    /\ (lastReq.op \in ReqOps /\ ProtectedDenyFirst(lastReq.op, lastReq.path))
           => lastReq.verdict = ApprovalDeny
    /\ \A op \in ReqOps, path \in ReqPaths :
           ProtectedDenyFirst(op, path) => pathDecision(op, path) = ApprovalDeny

\* C2 witness: a request covered by a protected deny was answered while a
\* thought entry allows it and the thought default is allow.
C2_Witness ==
    /\ lastReq.op = "write" /\ lastReq.path = Shadow
    /\ ProtectedDenyFirst("write", Shadow)
    /\ thoughtPolicy.default = ApprovalAllow
    /\ \E i \in 1..Len(thoughtPolicy.entries) :
           /\ Covers(thoughtPolicy.entries[i], "write", Shadow)
           /\ thoughtPolicy.entries[i].approval = ApprovalAllow

\* The policy.json guard, the protected entries, the session override, the
\* entries of both policies and both defaults leave the request undecided.
Undecided(op, path) ==
    LET modeChar == opToModeChar(op)
    IN /\ ~policyGuard(path)
       /\ protectedVerdict(path, modeChar) = "none"
       /\ ~sessionAllowFS
       /\ entriesVerdict(thoughtPolicy.entries, path, modeChar) = "none"
       /\ entriesVerdict(globalPolicy.entries, path, modeChar) = "none"
       /\ defaultsVerdict = "none"

\* C12: a request that the guard, the protected entries, the session
\* override, the policy entries and the defaults all leave undecided, made
\* while stderr is not a TTY, is denied without a prompt, and the thought
\* policy in memory and on disk, the global policy and the session flag are
\* what they were before the request.
C12_NonTTYDeniesUnprompted ==
    [][(/\ lastReq'.op \in ReqOps
        /\ Undecided(lastReq'.op, lastReq'.path)
        /\ ~isTTY)
         => (/\ lastReq'.verdict = ApprovalDeny
             /\ ~lastReq'.prompted
             /\ UNCHANGED <<thoughtPolicy, globalPolicy, diskPolicy,
                            sessionAllowFS, exited>>)]_vars

\* Off a TTY, with nothing in the policies (defaults "prompt", no entry that
\* decides), a read of /etc/shadow was denied and the user was not asked.
C12_Witness ==
    /\ ~isTTY
    /\ lastReq.op = "read" /\ lastReq.path = Shadow
    /\ Undecided("read", Shadow)
    /\ lastReq.verdict = ApprovalDeny
    /\ ~lastReq.prompted

\* The thought policy gained exactly one entry, at the end, for the path
\* with the approval and source = prompt, and policy.json holds the result.
AppendedAndSaved(path, approval) ==
    LET old == thoughtPolicy.entries
        new == thoughtPolicy'.entries
    IN /\ Len(new) = Len(old) + 1
       /\ SubSeq(new, 1, Len(old)) = old
       /\ new[Len(new)].path = path
       /\ new[Len(new)].approval = approval
       /\ new[Len(new)].source = SourcePrompt
       /\ thoughtPolicy'.default = thoughtPolicy.default
       /\ diskPolicy' = thoughtPolicy'

Interrupted == lastReq'.prompted /\ lastReq'.answer = "interrupt"

\* C20: when the user interrupts the prompt, ApprovePath returns the
\* sentinel error "interrupted" to the bridge that called it and the process
\* then exits with code 130; the request is not allowed and the thought
\* policy in memory and on disk and the session flag stay as they were.
C20_InterruptReturnsSentinel ==
    [][Interrupted =>
          /\ lastReq'.verdict = "interrupted"
          /\ exited'
          /\ UNCHANGED <<thoughtPolicy, diskPolicy, sessionAllowFS>>]_vars

\* C20 without the sentinel: the process exits with code 130 inside the
\* prompt, ApprovePath returning nothing; the request is not allowed and
\* nothing is persisted for it.
C20_InterruptExits ==
    [][Interrupted =>
          /\ lastReq'.verdict = "exit"
          /\ exited'
          /\ UNCHANGED <<thoughtPolicy, diskPolicy, sessionAllowFS>>]_vars

-----------------------------------------------------------------------------
(* The file system under the sandbox                                       *)

Node(kind, target) == [kind |-> kind, target |-> target]
DirNode  == Node("dir", <<>>)
FileNode == Node("file", <<>>)
LinkNode(target) == Node("link", target)

Exists(p) == p = <<>> \/ p \in DOMAIN fs
KindOf(p) == IF p = <<>> THEN "dir" ELSE fs[p].kind

\* filepath.Dir and filepath.Base on clean absolute paths.
Dir(p)  == IF p = <<>> THEN <<>> ELSE SubSeq(p, 1, Len(p) - 1)
Base(p) == IF p = <<>> THEN <<>> ELSE <<p[Len(p)]>>

\* filepath.Clean on the components of an absolute path: ".." drops the
\* component before it (and is dropped at the root).
RECURSIVE CleanFrom(_, _)
CleanFrom(acc, rest) ==
    IF rest = <<>> THEN acc
    ELSE IF Head(rest) = ".." THEN CleanFrom(Dir(acc), Tail(rest))
    ELSE CleanFrom(Append(acc, Head(rest)), Tail(rest))

Clean(comps) == CleanFrom(<<>>, comps)

\* filepath.Join(dir, rel): concatenation, cleaned.
Join(dir, rel) == Clean(dir \o rel)

NoPath == [ok |-> FALSE, path |-> <<>>]
Found(p) == [ok |-> TRUE, path |-> p]

LinkCount == Cardinality({p \in DOMAIN fs : fs[p].kind = "link"})

\* filepath.EvalSymlinks: walk the components, replacing each symlink by its
\* target; fails on a missing component, on a component below a non-directory
\* and on a chain of links that does not end.
RECURSIVE walkSymlinks(_, _, _)
walkSymlinks(done, rest, fuel) ==
    IF rest = <<>> THEN Found(done)
    ELSE LET p == Append(done, Head(rest))
         IN IF ~Exists(p) THEN NoPath
            ELSE IF KindOf(p) = "link"
                 THEN IF fuel = 0 THEN NoPath
                      ELSE walkSymlinks(<<>>, fs[p].target \o Tail(rest), fuel - 1)
            ELSE IF Tail(rest) # <<>> /\ KindOf(p) # "dir" THEN NoPath
            ELSE walkSymlinks(p, Tail(rest), fuel)

EvalSymlinks(p) == walkSymlinks(<<>>, p, LinkCount)

\* The file the kernel acts on when a path is opened: symlinks at the last
\* component are followed, also when what they name does not exist yet.
RECURSIVE followLast(_, _)
followLast(p, fuel) ==
    IF Exists(p) /\ KindOf(p) = "link" /\ fuel > 0
    THEN followLast(fs[p].target, fuel - 1)
    ELSE p

OpenTarget(p) == followLast(p, LinkCount)

\* The paths at or below p that exist.
Subtree(p) == {q \in DOMAIN fs : IsPrefix(p, q)}

\* open(O_CREATE) on p can succeed: the target is a file, or is missing in an
\* existing directory.
Creatable(p) ==
    LET t == OpenTarget(p)
    IN /\ t # <<>>
       /\ Exists(Dir(t)) /\ KindOf(Dir(t)) = "dir"
       /\ (Exists(t) => KindOf(t) = "file")

WithFile(f, p) == [q \in DOMAIN f \cup {p} |-> IF q = p THEN FileNode ELSE f[q]]
WithDir(f, p)  == [q \in DOMAIN f \cup {p} |-> IF q = p THEN DirNode ELSE f[q]]
Without(f, gone) == [q \in DOMAIN f \ gone |-> f[q]]

-----------------------------------------------------------------------------
(* internal/sandbox/sandbox.go                                             *)

\* A path as the script passes it: absolute or relative, ".." allowed.
UserPath(abs, comps) == [abs |-> abs, comps |-> comps]

\* The first half of resolvePath: absolute, clean, symlinks evaluated; for a
\* path that does not exist, the evaluated parent plus the last component.
\* The bridges below take its result as rp next to the path it was computed
\* from, so that one call evaluates the symlinks of a path once.
realPath(userPath, workDir) ==
    LET abs  == IF userPath.abs THEN Clean(userPath.comps)
                ELSE Join(workDir, userPath.comps)
        real == EvalSymlinks(abs)
        realParent == EvalSymlinks(Dir(abs))
    IN IF real.ok THEN real
       ELSE IF ~realParent.ok THEN NoPath
       ELSE Found(Join(realParent.path, Base(abs)))

\* real lies in one of the roots.
inRoots(real, roots) ==
    \E allowed \in roots : real = allowed \/ StrHasDirPrefix(real, allowed)

\* What one resolvePath(op, userPath) call did: ok when it returned a path,
\* real the evaluated path (the root when there is none), asked when it
\* called cfg.ApprovePath(op, real), granted when that answered true.
Resolved(op, ok, real, asked, granted) ==
    [op |-> op, ok |-> ok, real |-> real, asked |-> asked, granted |-> granted]

\* What cfg.ApprovePath(op, real) answers when it is set and called; "deny"
\* stands for (false, nil) and for any error, which resolvePath both turn
\* into an error of its own.
CallbackAnswers == {"allow", "deny"}

\* The tail of resolvePath for a path outside the scope: the approval
\* callback if one is set, else "access denied".
askCallback(op, real, answer) ==
    IF ~cfg.hasApprovePath THEN Resolved(op, FALSE, real, FALSE, FALSE)
    ELSE Resolved(op, answer = "allow", real, TRUE, answer = "allow")

\* The second half of Sandbox.resolvePath(op, userPath), rp being
\* realPath(userPath): the allowed roots, then the callback.
resolvePath(op, rp, answer) ==
    IF ~rp.ok THEN Resolved(op, FALSE, <<>>, FALSE, FALSE)
    ELSE IF inRoots(rp.path, cfg.allowedPaths)
         THEN Resolved(op, TRUE, rp.path, FALSE, FALSE)
    ELSE askCallback(op, rp.path, answer)

\* real is covered by writablePaths with each entry also opening its parent
\* directory.
inWritableOrSibling(real, writable) ==
    \E w \in writable : real = w \/ StrHasDirPrefix(real, Dir(w))

\* real is covered by writablePaths: it equals an entry (exact-file match), or
\* it is, or lies under, an entry that is a directory.
inWritable(real, writable) ==
    \/ real \in writable
    \/ \E w \in writable :
          /\ Exists(w) /\ KindOf(w) = "dir"
          /\ (real = w \/ StrHasDirPrefix(real, w))

\* resolvePath of a sandbox built with WritablePaths: write and delete are
\* scoped by writablePaths, every other op by allowedPaths.
resolvePathW(op, rp, answer) ==
    IF ~rp.ok THEN Resolved(op, FALSE, <<>>, FALSE, FALSE)
    ELSE IF op \in {"write", "delete"}
         THEN IF inWritable(rp.path, cfg.writablePaths)
              THEN Resolved(op, TRUE, rp.path, FALSE, FALSE)
              ELSE askCallback(op, rp.path, answer)
    ELSE IF inRoots(rp.path, cfg.allowedPaths)
         THEN Resolved(op, TRUE, rp.path, FALSE, FALSE)
    ELSE askCallback(op, rp.path, answer)

\* The resolvePath of the sandbox at hand.
resolve(op, rp, answer) ==
    IF "writablePaths" \in DOMAIN cfg THEN resolvePathW(op, rp, answer)
    ELSE resolvePath(op, rp, answer)

\* The answer is an input only where the callback is called.
AnswerUsed(r, answer) == r.asked \/ answer = "deny"

-----------------------------------------------------------------------------
(* internal/sandbox/bridge_fs.go, and the require loader of Sandbox.Run    *)

\* resolvePath("read", path), then os.ReadFile.
ReadThrough(bridge, path, rp, answer) ==
    LET r  == resolve("read", rp, answer)
        t  == OpenTarget(r.real)
        ok == r.ok /\ Exists(t) /\ KindOf(t) = "file"
    IN /\ AnswerUsed(r, answer)
       /\ sbCall' = Call(bridge, <<path>>, ok, {r},
                         IF ok THEN {t} ELSE {})
       /\ UNCHANGED <<cfg, fs>>

readFile(path, rp, answer) == ReadThrough("readFile", path, rp, answer)

require(path, rp, answer) == ReadThrough("require", path, rp, answer)

\* resolvePath("write", path), then open with O_CREATE and write.
WriteThrough(bridge, path, rp, answer) ==
    LET r  == resolve("write", rp, answer)
        t  == OpenTarget(r.real)
        ok == r.ok /\ Creatable(r.real)
    IN /\ AnswerUsed(r, answer)
       /\ sbCall' = Call(bridge, <<path>>, ok, {r},
                         IF ok THEN {t} ELSE {})
       /\ fs' = IF ok THEN WithFile(fs, t) ELSE fs
       /\ UNCHANGED cfg

writeFile(path, rp, answer) == WriteThrough("writeFile", path, rp, answer)

appendFile(path, rp, answer) == WriteThrough("appendFile", path, rp, answer)

\* resolvePath("read", path), then os.ReadDir.
readDir(path, rp, answer) ==
    LET r  == resolve("read", rp, answer)
        t  == OpenTarget(r.real)
        ok == r.ok /\ Exists(t) /\ KindOf(t) = "dir"
    IN /\ AnswerUsed(r, answer)
       /\ sbCall' = Call("readDir", <<path>>, ok, {r},
                         IF ok THEN {t} ELSE {})
       /\ UNCHANGED <<cfg, fs>>

\* resolvePath("read", path), then os.Stat; fs.exists answers false where
\* fs.stat throws.
StatThrough(bridge, path, rp, answer) ==
    LET r  == resolve("read", rp, answer)
        t  == OpenTarget(r.real)
        ok == r.ok /\ Exists(t)
    IN /\ AnswerUsed(r, answer)
       /\ sbCall' = Call(bridge, <<path>>, ok, {r},
                         IF ok THEN {t} ELSE {})
       /\ UNCHANGED <<cfg, fs>>

stat(path, rp, answer) == StatThrough("stat", path, rp, answer)

exists(path, rp, answer) == StatThrough("exists", path, rp, answer)

\* fs.delete without its root check.
isRootNever(real) == FALSE

\* The root check of fs.delete.
isRoot(real) == real \in cfg.allowedPaths

\* resolvePath("delete", path), the root check, then os.RemoveAll, which
\* removes the entry itself (a symlink, not what it names) and all below it,
\* and succeeds when there is nothing to remove.
delete(path, rp, answer) ==
    LET r    == resolve("delete", rp, answer)
        ok   == r.ok /\ ~isRoot(r.real)
        gone == Subtree(r.real)
    IN /\ AnswerUsed(r, answer)
       /\ sbCall' = Call("delete", <<path>>, ok, {r},
                         IF ok THEN gone ELSE {})
       /\ fs' = IF ok THEN Without(fs, gone) ELSE fs
       /\ UNCHANGED cfg

\* resolvePath("write", path), then os.MkdirAll: nothing to do on a
\* directory, an error on anything else that exists (a dangling symlink
\* included), else the directory is made in its parent.
mkdir(path, rp, answer) ==
    LET r  == resolve("write", rp, answer)
        t  == OpenTarget(r.real)
        isDir == Exists(t) /\ KindOf(t) = "dir"
        ok == /\ r.ok
              /\ \/ isDir
                 \/ /\ ~Exists(r.real)
                    /\ Exists(Dir(r.real)) /\ KindOf(Dir(r.real)) = "dir"
    IN /\ AnswerUsed(r, answer)
       /\ sbCall' = Call("mkdir", <<path>>, ok, {r},
                         IF ok THEN {t} ELSE {})
       /\ fs' = IF ok /\ ~isDir THEN WithDir(fs, r.real) ELSE fs
       /\ UNCHANGED cfg

\* fs.copy: resolvePath("read", src), resolvePath("write", dst), os.Open,
\* os.Create, io.Copy.  dst is resolved only if src resolved; the file is
\* created before the copy can fail on a source that is a directory.
copy(src, dst, rpSrc, rpDst, srcAnswer, dstAnswer) ==
    LET rs == resolve("read", rpSrc, srcAnswer)
        rd == IF rs.ok THEN resolve("write", rpDst, dstAnswer)
              ELSE Resolved("write", FALSE, <<>>, FALSE, FALSE)
        ts == OpenTarget(rs.real)
        td == OpenTarget(rd.real)
        opened  == rs.ok /\ rd.ok /\ Exists(ts)
        created == opened /\ Creatable(rd.real)
        ok      == created /\ KindOf(ts) = "file"
    IN /\ AnswerUsed(rs, srcAnswer)
       /\ AnswerUsed(rd, dstAnswer)
       /\ sbCall' = Call("copy", <<src, dst>>, ok,
                         IF rs.ok THEN {rs, rd} ELSE {rs},
                         IF created THEN {ts, td} ELSE {})
       /\ fs' = IF created THEN WithFile(fs, td) ELSE fs
       /\ UNCHANGED cfg

\* os.Rename(from, to) can succeed: from exists, to is not an existing
\* directory, is not below from, has a directory as parent, and a directory
\* does not replace a file.
Renamable(from, to) ==
    /\ from # <<>> /\ to # <<>>
    /\ Exists(from)
    /\ Exists(Dir(to)) /\ KindOf(Dir(to)) = "dir"
    /\ ~(from # to /\ IsPrefix(from, to))
    /\ Exists(to) => /\ KindOf(to) # "dir"
                     /\ KindOf(from) # "dir"

\* The file system after os.Rename(from, to): the subtree of from under to.
Renamed(f, from, to) ==
    LET moved == {q \in DOMAIN f : IsPrefix(from, q)}
        dest(q) == to \o SubSeq(q, Len(from) + 1, Len(q))
        kept  == (DOMAIN f \ moved) \ {to}
    IN [q \in kept \cup {dest(m) : m \in moved} |->
           IF q \in kept THEN f[q]
           ELSE f[CHOOSE m \in moved : dest(m) = q]]

\* fs.move: resolvePath("delete", src), resolvePath("write", dst), os.Rename.
move(src, dst, rpSrc, rpDst, srcAnswer, dstAnswer) ==
    LET rs == resolve("delete", rpSrc, srcAnswer)
        rd == IF rs.ok THEN resolve("write", rpDst, dstAnswer)
              ELSE Resolved("write", FALSE, <<>>, FALSE, FALSE)
        ok == rs.ok /\ rd.ok /\ Renamable(rs.real, rd.real)
    IN /\ AnswerUsed(rs, srcAnswer)
       /\ AnswerUsed(rd, dstAnswer)
       /\ sbCall' = Call("move", <<src, dst>>, ok,
                         IF rs.ok THEN {rs, rd} ELSE {rs},
                         IF ok THEN Subtree(rs.real) \cup {rd.real} ELSE {})
       /\ fs' = IF ok /\ rs.real # rd.real THEN Renamed(fs, rs.real, rd.real) ELSE fs
       /\ UNCHANGED cfg

-----------------------------------------------------------------------------
(* The sandbox under test: one allowed root, one directory outside it      *)

Allowed      == <<"allowed">>
AllowedFile  == <<"allowed", "f">>
Escape       == <<"allowed", "escape">>
Forbidden    == <<"forbidden">>
Secret       == <<"forbidden", "secret">>
ForbiddenNew == <<"forbidden", "new">>

\* The tree without the symlink.
BaseTree ==
    (Allowed :> DirNode) @@ (AllowedFile :> FileNode) @@
    (Forbidden :> DirNode) @@ (Secret :> FileNode)

\* What /allowed/escape points to: a directory outside the root, a file
\* outside the root, or a path outside the root that does not exist.
EscapeTargets == {Forbidden, Secret, ForbiddenNew}

InitialTrees ==
    {BaseTree} \cup {BaseTree @@ (Escape :> LinkNode(t)) : t \in EscapeTargets}

\* The paths scripts pass to the bridges.
SandboxPaths ==
    { UserPath(TRUE,  AllowedFile),
      UserPath(FALSE, <<"escape">>),
      UserPath(TRUE,  <<"allowed", "escape", "secret">>),
      UserPath(FALSE, <<"..", "forbidden", "secret">>),
      UserPath(TRUE,  Allowed) }

\* Second arguments of fs.copy and fs.move.
SandboxDests ==
    { UserPath(TRUE, Escape), UserPath(TRUE, ForbiddenNew) }

\* sandbox.New(Config{AllowedPaths: {/allowed}, WorkDir: /allowed}), with or
\* without an ApprovePath callback.
SandboxCreated ==
    /\ cfg \in {[workDir |-> Allowed, allowedPaths |-> {Allowed},
                 hasApprovePath |-> b] : b \in BOOLEAN}
    /\ fs \in InitialTrees
    /\ sbCall = NoCall
    /\ sbCalls = 0

\* Bridge calls a script makes in one run of the model.
MaxCalls == 2

\* One bridge call of the running script.
BridgeCall(paths, dests) ==
    /\ sbCalls < MaxCalls
    /\ sbCalls' = sbCalls + 1
    /\ \E path \in paths, answer \in CallbackAnswers :
         LET rp == realPath(path, cfg.workDir)
         IN \/ readFile(path, rp, answer)
            \/ writeFile(path, rp, answer)
            \/ appendFile(path, rp, answer)
            \/ readDir(path, rp, answer)
            \/ stat(path, rp, answer)
            \/ exists(path, rp, answer)
            \/ delete(path, rp, answer)
            \/ mkdir(path, rp, answer)
            \/ require(path, rp, answer)
            \/ \E dst \in dests, dstAnswer \in CallbackAnswers :
                  LET rpDst == realPath(dst, cfg.workDir)
                  IN \/ copy(path, dst, rp, rpDst, answer, dstAnswer)
                     \/ move(path, dst, rp, rpDst, answer, dstAnswer)

NextSandbox ==
    BridgeCall(SandboxPaths, SandboxDests) /\ UNCHANGED <<approvalVars, runVars, restVars>>

InitSandbox == SandboxCreated /\ IdleApproval /\ IdleRun /\ IdleRest

SpecSandbox == InitSandbox /\ [][NextSandbox]_vars

-----------------------------------------------------------------------------
(* The sandbox with writablePaths: a thought directory that is readable,   *)
(* with lib/ and memory.js writable                                        *)

Lib      == <<"thought", "lib">>

\* The thought directory with lib/, with and without memory.js and
\* policy.json.
WritableTrees ==
    LET base == (ThoughtDir :> DirNode) @@ (Lib :> DirNode)
    IN {base, base @@ (MemoryJS :> FileNode), base @@ (PolicyPath :> FileNode),
        base @@ (MemoryJS :> FileNode) @@ (PolicyPath :> FileNode)}

WritableUserPaths ==
    { UserPath(TRUE,  MemoryJS),
      UserPath(FALSE, <<"policy.json">>),
      UserPath(TRUE,  PolicyBak),
      UserPath(FALSE, <<"lib", "x">>),
      UserPath(FALSE, <<"lib">>),
      UserPath(TRUE,  ThoughtDir) }

WritableDests ==
    { UserPath(FALSE, <<"memory.js">>), UserPath(TRUE, PolicyPath) }

\* sandbox.New(Config{AllowedPaths: {dir}, WritablePaths: {dir/lib,
\* dir/memory.js}, WorkDir: dir}), with or without an ApprovePath callback;
\* and the same with dir/lib also among the allowed roots, as runScript has
\* the workspace both in AllowedPaths and in WritablePaths.
WritableCreated ==
    /\ cfg \in {[workDir |-> ThoughtDir, allowedPaths |-> roots,
                 writablePaths |-> {Lib, MemoryJS},
                 hasApprovePath |-> b] :
                    roots \in {{ThoughtDir}, {ThoughtDir, Lib}}, b \in BOOLEAN}
    /\ fs \in WritableTrees
    /\ sbCall = NoCall
    /\ sbCalls = 0

NextWritable ==
    BridgeCall(WritableUserPaths, WritableDests) /\ UNCHANGED <<approvalVars, runVars, restVars>>

InitWritable == WritableCreated /\ IdleApproval /\ IdleRun /\ IdleRest

SpecWritable == InitWritable /\ [][NextWritable]_vars

-----------------------------------------------------------------------------
(* Properties of the sandbox                                               *)

\* t is inside the scope the sandbox grants: in an allowed root.
InsideRoots(t) == inRoots(t, cfg.allowedPaths)

\* t is a path the callback granted to the last call, or lies below one.
Granted(t) == \E c \in sbCall.checks : c.granted /\ IsPrefix(c.real, t)

\* C3: every filesystem bridge call, and require, that acts on a file or
\* directory outside all allowedPaths roots fails unless the approval
\* callback granted the symlink-resolved path: a call that returned normally
\* touched only paths inside the roots or granted ones.
C3_OutsideRootsNeedsGrant ==
    sbCall.ok => \A t \in sbCall.touched : InsideRoots(t) \/ Granted(t)

\* real lies in the directory of the writable file memory.js, is not that
\* file, and is not under the writable directory lib/.
SiblingOfWritableFile(real) ==
    /\ Dir(real) = Dir(MemoryJS)
    /\ real # MemoryJS
    /\ real # Lib /\ ~StrHasDirPrefix(real, Lib)

\* C4: with writablePaths = {lib/, memory.js} and the directory of memory.js
\* not writable, a write to memory.js is authorized without the approval
\* callback being consulted; a write to any other path in that directory is
\* authorized only if the callback was consulted and granted it, and the
\* bridge call fails otherwise.
C4_WritableExactFile ==
    \A c \in sbCall.checks :
        c.op = "write" =>
            /\ c.real = MemoryJS => c.ok /\ ~c.asked
            /\ SiblingOfWritableFile(c.real) =>
                  /\ c.ok => c.asked /\ c.granted
                  /\ ~c.ok => ~sbCall.ok

\* fs.writeFile on memory.js went through in a sandbox with no callback set.
C4_Witness ==
    /\ ~cfg.hasApprovePath
    /\ sbCall.bridge = "writeFile"
    /\ sbCall.ok
    /\ sbCall.touched = {MemoryJS}
    /\ \E c \in sbCall.checks : c.op = "write" /\ c.real = MemoryJS /\ ~c.asked

\* The step is an fs.delete call whose path resolved to one of the allowed
\* roots.
DeletesRoot ==
    /\ sbCalls' = sbCalls + 1
    /\ sbCall'.bridge = "delete"
    /\ \E r \in sbCall'.checks : r.real \in cfg.allowedPaths

\* C19: fs.delete of a path that resolves to an allowed root throws and
\* removes nothing, whether resolvePath passed the path because
\* writablePaths covers it or because the callback granted it.
C19_RootNeverDeleted ==
    [][DeletesRoot => (~sbCall'.ok /\ sbCall'.touched = {} /\ fs' = fs)]_vars

\* fs.delete("lib") was refused although lib is writable and resolvePath
\* let it through: lib is an allowed root.
C19_Witness ==
    /\ sbCall.bridge = "delete"
    /\ sbCall.args = <<UserPath(FALSE, <<"lib">>)>>
    /\ Lib \in cfg.allowedPaths /\ Lib \in cfg.writablePaths
    /\ \E r \in sbCall.checks : r.ok /\ r.real = Lib /\ ~r.asked
    /\ ~sbCall.ok
    /\ Lib \in DOMAIN fs

-----------------------------------------------------------------------------
(* cmd: runScript, the memory.js attempt                                   *)

\* Strings are kept as the sequence of their pieces: a literal prefix and
\* what follows it.
FirstRun          == <<"no memory.js exists, first run">>
MemoryErrorPrefix == "memory.js error: "
ReadErrorPrefix   == "failed to read memory.js: "

\* What sb.Run returns for memory.js: nil, a *ResumeError with its Context,
\* or another error with its message.
RunNil        == [err |-> "nil", text |-> <<>>]
RunResume(c)  == [err |-> "resume", text |-> c]
RunError(msg) == [err |-> "error", text |-> <<msg>>]

RunOutcomes ==
    { RunNil, RunResume(<<"need input">>), RunResume(<<>>),
      RunError("boom"), RunError("script exited with code 1") }

\* What os.Stat and os.ReadFile find at memoryJSPath.
MemoryStates == {"absent", "unreadable", "present"}

runSucceededNever(run) == FALSE

\* err == nil after sb.Run.
runSucceeded(run) == run.err = "nil"

\* The memory.js block of runScript: [success, resumeContext].
tryMemoryJS(memory, run) ==
    IF memory = "absent"
    THEN [success |-> FALSE, resumeContext |-> FirstRun]
    ELSE IF memory = "unreadable"
    THEN [success |-> FALSE, resumeContext |-> <<ReadErrorPrefix, "is a directory">>]
    ELSE IF runSucceeded(run)
    THEN [success |-> TRUE, resumeContext |-> <<>>]
    ELSE IF run.err = "resume"
    THEN [success |-> FALSE, resumeContext |-> run.text]
    ELSE [success |-> FALSE, resumeContext |-> <<MemoryErrorPrefix>> \o run.text]

agentVars == <<maxIterations, iter, messages, toolUses, stopReason, tu,
               resultBlocks, outcomes, providerCalls>>

\* runScript from the os.Stat of memory.js to the return on success or to
\* the set-up of the agent.
TryMemoryJS(memory, run) ==
    LET r == tryMemoryJS(memory, run)
    IN /\ pc = "boot"
       /\ memory # "present" => run = RunNil
       /\ boot' = [memory |-> memory, run |-> run]
       /\ resumeContext' = r.resumeContext
       /\ pc' = IF r.success THEN "done" ELSE "start"
       /\ runResult' = IF r.success THEN "nil" ELSE ""
       /\ UNCHANGED <<agentVars, ctxCancelled>>

-----------------------------------------------------------------------------
(* internal/agent/agent.go: Agent.Run                                      *)

\* The phrasing of the "## Resume Context" appendix of the first message.
promptKind(ctx) ==
    IF ctx = <<>> THEN "none"
    ELSE IF ctx = FirstRun THEN "first run"
    ELSE IF ctx[1] = MemoryErrorPrefix THEN "memory.js error"
    ELSE "agent.resume"

Message(role, kind) == [role |-> role, kind |-> kind]

loopContinuesOneMore(n, max) == n <= max

\* The condition of the for loop.
loopContinues(n, max) == n < max

\* Past the loop body: the next iteration, or the error after the loop.
LoopHead(n) ==
    IF loopContinues(n, maxIterations)
    THEN /\ pc' = "chat"
         /\ runResult' = ""
    ELSE /\ pc' = "done"
         /\ runResult' = "agent loop exceeded maximum iterations"

\* runScript from tools.NewRegistry to the first loop test of Agent.Run.
StartAgent(providerOk) ==
    /\ pc = "start"
    /\ IF providerOk
       THEN /\ messages' = <<Message("user", promptKind(resumeContext))>>
            /\ iter' = 0
            /\ LoopHead(0)
       ELSE /\ pc' = "done"
            /\ runResult' = "createProvider failed"
            /\ UNCHANGED <<messages, iter>>
    /\ UNCHANGED <<boot, resumeContext, maxIterations, toolUses, stopReason, tu,
                   resultBlocks, outcomes, providerCalls, ctxCancelled>>

\* Tools a reply may name: one that is registered and one that is not.
RegisteredTools == {"run_script"}
ToolNames == {"run_script", "bogus"}

\* tool_use blocks in one reply.
MaxTools == 2

ToolSeqs == UNION {[1..n -> ToolNames] : n \in 0..MaxTools}

StopReasons == {"end_turn", "tool_use"}

\* What provider.Chat returns: an error, or a reply with its tool_use blocks
\* and stop reason.
ChatError == [err |-> TRUE, tools |-> <<>>, stop |-> ""]
Replies ==
    {ChatError} \cup
    {[err |-> FALSE, tools |-> t, stop |-> r] : t \in ToolSeqs, r \in StopReasons}

\* One turn of the loop up to the tool calls: the ctx test, provider.Chat,
\* the scan of the reply, the assistant message.
Chat(resp) ==
    /\ pc = "chat"
    /\ IF ctxCancelled
       THEN /\ resp = ChatError
            /\ pc' = "done"
            /\ runResult' = "context canceled"
            /\ UNCHANGED <<messages, toolUses, stopReason, tu, resultBlocks,
                           outcomes, providerCalls>>
       ELSE /\ providerCalls' = providerCalls + 1
            /\ toolUses' = resp.tools
            /\ stopReason' = resp.stop
            /\ resultBlocks' = <<>>
            /\ outcomes' = <<>>
            /\ tu' = 1
            /\ IF resp.err
               THEN /\ pc' = "done"
                    /\ runResult' = "API call failed"
                    /\ UNCHANGED messages
               ELSE IF Len(resp.tools) = 0
               THEN /\ pc' = "done"
                    /\ runResult' = "nil"
                    /\ UNCHANGED messages
               ELSE /\ pc' = "exec"
                    /\ runResult' = ""
                    /\ messages' = Append(messages, Message("assistant", "tool_use"))
    /\ UNCHANGED <<boot, resumeContext, maxIterations, iter, ctxCancelled>>

\* What a tool handler returns: a result, an error, approval.ErrInterrupted.
HandlerOutcomes == {"nil", "error", "interrupted"}

\* Registry.Execute(ctx, name, input): the error it returns, "nil" for none.
\* The registered tools carry no approve function.
Execute(name, handler) ==
    IF name \notin RegisteredTools THEN "error" ELSE handler

abortsLoopAlways(err, cancelled) == TRUE

abortsLoopNever(err, cancelled) == FALSE

\* ctx.Err() != nil || errors.Is(err, approval.ErrInterrupted)
abortsLoop(err, cancelled) == cancelled \/ err = "interrupted"

\* A tool_result block carrying the id of the reply's first tool_use.
ToolResultBlockFirstId(id, content, isError) ==
    [id |-> 1, content |-> content, isError |-> isError]

\* provider.NewToolResultBlock(tu.ToolUseID, content, isError); the content
\* is the tool's result or err.Error().
ToolResultBlock(id, content, isError) ==
    [id |-> id, content |-> content, isError |-> isError]

lastToolFirst(n, uses) == n >= 1

\* tu is the last element the range loop over toolUses visits.
lastTool(n, uses) == n = Len(uses)

\* One registry.Execute call of the loop over toolUses and, after the last
\* one, the rest of the turn: the tool_result message, the end_turn test,
\* i++ and the loop test.
ExecuteTool(handler) ==
    LET err   == Execute(toolUses[tu], handler)
        block == ToolResultBlock(tu, IF err = "nil" THEN "result" ELSE err,
                                 err # "nil")
    IN /\ pc = "exec"
       /\ toolUses[tu] \notin RegisteredTools => handler = "nil"
       /\ outcomes' = Append(outcomes, [err |-> err, cancelled |-> ctxCancelled])
       /\ IF err # "nil" /\ abortsLoop(err, ctxCancelled)
          THEN /\ pc' = "done"
               /\ runResult' = err
               /\ UNCHANGED <<resultBlocks, messages, iter, tu>>
          ELSE /\ resultBlocks' = Append(resultBlocks, block)
               /\ IF lastTool(tu, toolUses)
                  THEN /\ messages' = Append(messages, Message("user", "tool_result"))
                       /\ tu' = tu
                       /\ IF stopReason = "end_turn"
                          THEN /\ pc' = "done"
                               /\ runResult' = "nil"
                               /\ iter' = iter
                          ELSE /\ iter' = iter + 1
                               /\ LoopHead(iter + 1)
                  ELSE /\ tu' = tu + 1
                       /\ UNCHANGED <<messages, iter, pc, runResult>>
       /\ UNCHANGED <<boot, resumeContext, maxIterations, toolUses, stopReason,
                      providerCalls, ctxCancelled>>

\* The context of the command is cancelled.
Cancel ==
    /\ pc \in {"boot", "start", "chat", "exec"}
    /\ ~ctxCancelled
    /\ ctxCancelled' = TRUE
    /\ UNCHANGED <<pc, boot, resumeContext, agentVars, runResult>>

\* The largest max_iterations configured.
MaxIterations == 2

\* runScript is entered with a resolved configuration.
RunStarted ==
    /\ pc = "boot"
    /\ boot = NoBoot
    /\ resumeContext = <<>>
    /\ maxIterations \in 1..MaxIterations
    /\ iter = 0
    /\ messages = <<>>
    /\ toolUses = <<>>
    /\ stopReason = ""
    /\ tu = 0
    /\ resultBlocks = <<>>
    /\ outcomes = <<>>
    /\ providerCalls = 0
    /\ ctxCancelled = FALSE
    /\ runResult = ""

RunStep ==
    \/ \E memory \in MemoryStates, run \in RunOutcomes : TryMemoryJS(memory, run)
    \/ \E providerOk \in BOOLEAN : StartAgent(providerOk)
    \/ \E resp \in Replies : Chat(resp)
    \/ \E handler \in HandlerOutcomes : ExecuteTool(handler)
    \/ Cancel

NextRun == RunStep /\ UNCHANGED <<approvalVars, sandboxVars, restVars>>

InitRun == RunStarted /\ IdleApproval /\ IdleSandbox /\ IdleRest

SpecRun == InitRun /\ [][NextRun]_vars

\* Every call runScript waits on returns: the run of memory.js, the
\* provider, the tools.
SpecRunFair == SpecRun /\ WF_vars(NextRun)

-----------------------------------------------------------------------------
(* Properties of runScript and the agent loop                              *)

Overflow == "agent loop exceeded maximum iterations"

LastMessage == messages[Len(messages)]

\* The memory.js attempt was made and did not succeed.
BootFailed ==
    \/ boot.memory \in {"absent", "unreadable"}
    \/ boot.memory = "present" /\ boot.run.err # "nil"

\* C5: when memory.js exists and runs to successful completion, the
\* invocation ends successfully, the Provider is never called and the agent
\* loop is never started.
C5_MemorySuccessSkipsAgent ==
    (boot.memory = "present" /\ boot.run.err = "nil") =>
        /\ pc = "done"
        /\ runResult = "nil"
        /\ providerCalls = 0
        /\ messages = <<>>

\* memory.js ran to completion and runScript has returned.
C5_Witness ==
    boot.memory = "present" /\ boot.run.err = "nil" /\ pc = "done"

\* C6: whenever the memory.js attempt does not succeed, the resume context
\* is the literal "no memory.js exists, first run", or "memory.js error: "
\* followed by a message, or the context passed to agent.resume; the
\* invocation does not end before the agent loop is started, and the loop is
\* started with that context.
C6_ThreeResumeShapes ==
    BootFailed =>
        /\ \/ resumeContext = FirstRun
           \/ resumeContext # <<>> /\ resumeContext[1] = MemoryErrorPrefix
           \/ boot.run.err = "resume" /\ resumeContext = boot.run.text
        /\ pc = "done" =>
              /\ messages # <<>>
              /\ messages[1] = Message("user", promptKind(resumeContext))

\* What holds while the agent loop runs and when it has ended.
C7_Bounded ==
    /\ providerCalls <= maxIterations
    /\ (/\ pc = "done"
        /\ providerCalls = maxIterations
        /\ toolUses # <<>>
        /\ stopReason # "end_turn") =>
           /\ runResult # "nil"
           /\ Len(resultBlocks) = Len(toolUses) => runResult = Overflow

\* C7: the agent loop terminates, and makes at most maxIterations Provider
\* calls; when the reply of turn maxIterations still asks for tools with a
\* stop reason other than end_turn, runScript ends with the
\* iteration-overflow error and never with success.
C7_LoopTerminates == [](C7_Bounded) /\ <>(pc = "done")

\* The loop ran out of iterations after more than one turn.
C7_Witness ==
    /\ pc = "done"
    /\ runResult = Overflow
    /\ maxIterations > 1
    /\ providerCalls = maxIterations

\* C8: when the loop ends successfully on a reply with stop_reason end_turn
\* that holds tool_use blocks, every tool_use of that reply was executed
\* through the registry, the tool_result message with one block per tool_use
\* is the last message of the conversation, and no Provider call was made
\* after that reply.
C8_EndTurnRunsTools ==
    (pc = "done" /\ runResult = "nil" /\ toolUses # <<>> /\ stopReason = "end_turn") =>
        /\ Len(outcomes) = Len(toolUses)
        /\ Len(resultBlocks) = Len(toolUses)
        /\ \A j \in 1..Len(toolUses) : resultBlocks[j].id = j
        /\ LastMessage = Message("user", "tool_result")
        /\ Len(messages) = 2 * providerCalls + 1

\* An end_turn reply with more than one tool_use ended the loop.
C8_Witness ==
    /\ pc = "done"
    /\ runResult = "nil"
    /\ stopReason = "end_turn"
    /\ Len(toolUses) > 1
    /\ Len(resultBlocks) = Len(toolUses)

\* A tool error that is neither a cancellation nor an interrupted prompt.
Ordinary(o) == o.err = "error" /\ ~o.cancelled

\* A tool error under a cancelled context, or an interrupted prompt.
Aborting(o) == o.err # "nil" /\ (o.cancelled \/ o.err = "interrupted")

\* The error of tool j of the reply is in the tool results.
Reported(j) ==
    /\ Len(resultBlocks) >= j
    /\ resultBlocks[j] = ToolResultBlock(j, "error", TRUE)

\* C9 as stated: an ordinary tool error is reported as a tool_result block
\* with isError=true carrying the message, and the loop never ends on the
\* reply it occurred in: the next Provider call follows.
C9_ErrorAlwaysContinues ==
    \A j \in 1..Len(outcomes) :
        Ordinary(outcomes[j]) => Reported(j) /\ pc # "done"

\* C9 amended: an ordinary tool error is reported as a tool_result block with
\* isError=true carrying the message and does not end the loop.  The loop
\* ends on that reply only with all its tools executed and success on
\* end_turn, with all its tools executed and the overflow error at the
\* iteration limit, with the error of a later tool that was cancelled or
\* interrupted, or with the context error once the context is cancelled.
C9_ErrorIsReported ==
    \A j \in 1..Len(outcomes) :
        Ordinary(outcomes[j]) =>
            /\ Reported(j)
            /\ pc = "done" =>
                  \/ /\ runResult = "nil"
                     /\ stopReason = "end_turn"
                     /\ Len(resultBlocks) = Len(toolUses)
                  \/ /\ runResult = Overflow
                     /\ iter = maxIterations
                     /\ Len(resultBlocks) = Len(toolUses)
                  \/ /\ Len(outcomes) > j
                     /\ Aborting(outcomes[Len(outcomes)])
                     /\ runResult = outcomes[Len(outcomes)].err
                  \/ /\ runResult = "context canceled"
                     /\ ctxCancelled

\* The first of two tools failed, the second ran, and the loop went on to
\* the next Provider call.
C9_Witness ==
    /\ pc = "chat"
    /\ iter > 0
    /\ Len(outcomes) > 1
    /\ Ordinary(outcomes[1])
    /\ resultBlocks[1].isError

\* C10: a tool execution that fails under a cancelled context or with an
\* interrupted prompt ends the loop at once with that error: it is the last
\* tool executed, no tool_result message follows the assistant message, and
\* no Provider call follows.
C10_AbortOnCancelOrInterrupt ==
    \A j \in 1..Len(outcomes) :
        Aborting(outcomes[j]) =>
            /\ pc = "done"
            /\ runResult = outcomes[j].err
            /\ j = Len(outcomes)
            /\ Len(resultBlocks) = j - 1
            /\ LastMessage = Message("assistant", "tool_use")
            /\ Len(messages) = 2 * providerCalls

\* The first of two tools was interrupted.
C10_Witness ==
    /\ pc = "done"
    /\ runResult = "interrupted"
    /\ Len(toolUses) > 1
    /\ Len(outcomes) = 1

-----------------------------------------------------------------------------
(* internal/approval/ttylock.go and Approver.prompt: invocations that run   *)
(* at the same time and prompt on their terminals                           *)

Procs == {1, 2}

\* Home directories (THINKINGSCRIPT_HOME, else ~/.thinkingscript) and the
\* device numbers of the terminals behind stderr, in decimal.
Homes == {"/home/a/.thinkingscript", "/home/b/.thinkingscript"}
Rdevs == {"34816", "34817"}

\* An invocation whose stderr is a terminal (only such an invocation
\* prompts): at tells where it stands -- "run" outside any prompt, "wait" in
\* syscall.Flock with the lock file open, "locked" with the lock taken and
\* the header not yet printed, "form" with the header
\* printed and the form waiting for the choice, "exit" after os.Exit(130) --
\* and prompts counts the prompts it has finished.
Prompter(home, rdev, at, prompts) ==
    [home |-> home, rdev |-> rdev, at |-> at, prompts |-> prompts]

\* Sprintf("%d", stat.Rdev); Fstat on a stderr that is an open terminal
\* succeeds, so the "default" id is not met here.
ttyID(p) == prompter[p].rdev

\* <home>/locks/prompt-<ttyID>.lock
lockPath(p) == <<prompter[p].home, "locks", ttyID(p)>>

lockFreeAlways(path) == TRUE

\* syscall.Flock(fd, LOCK_EX) returns once no other open file holds the lock.
lockFree(path) == path \notin DOMAIN flock

\* Prompts one invocation makes.
MaxPrompts == 2

\* acquirePromptLock at the head of Approver.prompt, up to the call of
\* syscall.Flock; ok is false when MkdirAll, OpenFile or Flock fails, and
\* prompt then returns the error with nothing printed.
openLockFile(p, ok) ==
    /\ prompter[p].at = "run"
    /\ prompter[p].prompts < MaxPrompts
    /\ prompter' = [prompter EXCEPT ![p].at = IF ok THEN "wait" ELSE @,
                                    ![p].prompts = IF ok THEN @ ELSE @ + 1]
    /\ UNCHANGED flock

\* syscall.Flock(fd, LOCK_EX) returns and acquirePromptLock with it.
acquirePromptLock(p) ==
    /\ prompter[p].at = "wait"
    /\ lockFree(lockPath(p))
    /\ flock' = (lockPath(p) :> p) @@ flock
    /\ prompter' = [prompter EXCEPT ![p].at = "locked"]

\* The Fprintf of the header line to stderr.
printHeader(p) ==
    /\ prompter[p].at = "locked"
    /\ prompter' = [prompter EXCEPT ![p].at = "form"]
    /\ UNCHANGED flock

\* The locks when p lets go of none.
releasedNone(p) == flock

\* What is left of the locks when p lets go of its own.
released(p) == [path \in {q \in DOMAIN flock : flock[q] # p} |-> flock[path]]

\* form.Run returns with the user's choice; the deferred releasePromptLock.
choose(p) ==
    /\ prompter[p].at = "form"
    /\ prompter' = [prompter EXCEPT ![p].at = "run", ![p].prompts = @ + 1]
    /\ flock' = released(p)

\* form.Run fails on Ctrl-C and prompt calls os.Exit(130): the process is
\* gone and the kernel drops its lock with its file descriptors.
interrupt(p) ==
    /\ prompter[p].at = "form"
    /\ prompter' = [prompter EXCEPT ![p].at = "exit"]
    /\ flock' = released(p)

PromptersStarted ==
    /\ prompter \in [Procs -> {Prompter(h, d, "run", 0) :
                                  h \in Homes, d \in Rdevs}]
    /\ flock = <<>>

PromptStep ==
    \/ \E p \in Procs, ok \in BOOLEAN : openLockFile(p, ok)
    \/ \E p \in Procs : acquirePromptLock(p)
    \/ \E p \in Procs : printHeader(p)
    \/ \E p \in Procs : choose(p)
    \/ \E p \in Procs : interrupt(p)

NextPrompt ==
    PromptStep /\ UNCHANGED <<approvalVars, sandboxVars, runVars, thoughtVars, netVars,
                             matchVars, saveVars>>

InitPrompt ==
    /\ PromptersStarted /\ IdleApproval /\ IdleSandbox /\ IdleRun /\ IdleThought
    /\ IdleNet /\ IdleMatch /\ IdleSave

SpecPrompt == InitPrompt /\ [][NextPrompt]_vars

\* A step of invocation p past the call of prompt.
PromptProgress(p) ==
    /\ acquirePromptLock(p) \/ printHeader(p) \/ choose(p) \/ interrupt(p)
    /\ UNCHANGED <<approvalVars, sandboxVars, runVars, thoughtVars, netVars,
                   matchVars, saveVars>>

\* Flock returns when the lock stays free, the header is printed, and the
\* user answers or interrupts every prompt that is shown.
SpecPromptFair == SpecPrompt /\ \A p \in Procs : WF_vars(PromptProgress(p))

\* p has printed its prompt header and has not yet received the choice.
InPrompt(p) == prompter[p].at = "form"

SameTerminal(p, q) == prompter[p].rdev = prompter[q].rdev

\* C11 as stated: of two invocations whose stderr is the same terminal
\* device, at most one is between printing its prompt header and receiving
\* the user's choice.
C11_PromptsExclusive ==
    \A p \in Procs, q \in Procs :
        (p # q /\ SameTerminal(p, q)) => ~(InPrompt(p) /\ InPrompt(q))

SameHome(p, q) == prompter[p].home = prompter[q].home

\* C11 under one home: of two invocations whose stderr is the same terminal device
\* and that use the same home directory, at most one is between printing its
\* prompt header and receiving the user's choice.
C11_PromptsExclusiveSameHome ==
    \A p \in Procs, q \in Procs :
        (p # q /\ SameTerminal(p, q) /\ SameHome(p, q))
            => ~(InPrompt(p) /\ InPrompt(q))

\* Two invocations share terminal and home; one is inside its prompt while
\* the other has finished a prompt of its own and is not prompting.
C11_Witness ==
    /\ SameTerminal(1, 2) /\ SameHome(1, 2)
    /\ InPrompt(1)
    /\ prompter[2].at = "run" /\ prompter[2].prompts = 1

-----------------------------------------------------------------------------
(* internal/config and the head of runScript: the fingerprint, the cache   *)
(* directory and the Approver of successive invocations of one thought     *)

\* The bytes of the script and of the think binary, as sequences of pieces.
Scripts  == {<<"print hello">>, <<"print hello, then exit">>}
Binaries == {<<"think-1">>, <<"think-2">>}

\* config.Fingerprint: SHA-256 over the script bytes followed by the bytes of
\* the executable, in hex.  The digest stands for what it was computed from:
\* no two inputs met here share one.
Fingerprint(data, bin) == data \o bin

\* The script and binary of an invocation: the first versions, then an
\* edited script or a rebuilt binary.
RunInputs == {<<d, b>> \in Scripts \X Binaries :
                 d = <<"print hello">> \/ b = <<"think-1">>}

Fingerprints == {Fingerprint(in[1], in[2]) : in \in RunInputs}

\* A cache directory: whether it exists, whether it holds the marker file
\* "fingerprint" and with what content, whether it holds anything else.
CacheDirState(dir, marker, text, extra) ==
    [dir |-> dir, marker |-> marker, text |-> text, extra |-> extra]

\* After os.RemoveAll(cacheDir).
Removed == CacheDirState(FALSE, FALSE, <<>>, FALSE)

\* After os.MkdirAll(cacheDir) on a removed directory.
Made == CacheDirState(TRUE, FALSE, <<>>, FALSE)

\* After config.WriteFingerprint(cacheDir, fp) in a directory just made.
Marked(fp) == CacheDirState(TRUE, TRUE, fp, FALSE)

NL == "\n"

\* strings.TrimSpace on a marker's content: white space at both ends goes.
RECURSIVE TrimLeft(_)
TrimLeft(t) == IF t # <<>> /\ Head(t) = NL THEN TrimLeft(Tail(t)) ELSE t

RECURSIVE TrimRight(_)
TrimRight(t) ==
    IF t # <<>> /\ t[Len(t)] = NL THEN TrimRight(SubSeq(t, 1, Len(t) - 1)) ELSE t

TrimSpace(t) == TrimLeft(TrimRight(t))

\* CheckFingerprint comparing the marker as it is read.
CheckFingerprintUntrimmed(d, currentFingerprint) ==
    d.dir /\ d.marker /\ d.text = currentFingerprint

\* config.CheckFingerprint on the cache directory in state d.
CheckFingerprint(d, currentFingerprint) ==
    d.dir /\ d.marker /\ TrimSpace(d.text) = currentFingerprint

\* cacheMode()
CacheModes == {"persist", "ephemeral", "off"}

\* How far the cache set-up of runScript gets: through, or to the error
\* return after os.MkdirAll, or to the one after config.WriteFingerprint.
StartOutcomes == {"ok", "creating cache dir", "writing fingerprint"}

\* The cache directory after the head of runScript, from its state d.
cacheAfterStart(d, fp, mode, outcome) ==
    LET d1 == IF mode = "off" THEN Removed ELSE d
    IN IF CheckFingerprint(d1, fp) THEN d1
       ELSE IF outcome = "ok" THEN Marked(fp)
       ELSE IF mode = "off" THEN Removed      \* the deferred RemoveAll
       ELSE IF outcome = "writing fingerprint" THEN Made
       ELSE Removed

\* No policy.json in the thought directory.
NoPolicyFile == [default |-> "no file", entries |-> <<>>]

\* LoadPolicy on <thoughtDir>/policy.json.
LoadPolicy(file) == IF file = NoPolicyFile THEN NewPolicy ELSE file

\* loadPolicies on the global policy's file: no file leaves NewPolicy(), and
\* a document without protected entries has none.
LoadGlobalPolicy(file) ==
    [default   |-> LoadPolicy(file).default,
     entries   |-> LoadPolicy(file).entries,
     protected |-> IF "protected" \in DOMAIN file THEN file.protected ELSE <<>>]

\* Invocations of the thought in one behaviour.
MaxRuns == 2

\* runScript from cacheMode() to approval.NewApprover, with stderr a
\* terminal: the cache directory of the fingerprint is checked and, if
\* stale, wiped and marked again; the Approver loads the policies.
StartRun(data, bin, mode, outcome) ==
    LET fp     == Fingerprint(data, bin)
        d      == cache[fp]
        check  == CheckFingerprint(IF mode = "off" THEN Removed ELSE d, fp)
        failed == ~check /\ outcome # "ok"
    IN /\ invocation.phase \in {"none", "ended"} \/ exited
       /\ clock < MaxRuns
       /\ check => outcome = "ok"
       /\ clock' = clock + 1
       /\ cache' = [cache EXCEPT ![fp] = cacheAfterStart(d, fp, mode, outcome)]
       /\ invocation' =
              [phase  |-> IF failed THEN "ended" ELSE "loaded",
               fp     |-> fp,
               mode   |-> mode,
               check  |-> check,
               wiped  |-> mode = "off" \/ ~check,
               ok     |-> FALSE,
               fps    |-> Append(invocation.fps, fp),
               bootstrapped |-> invocation.bootstrapped,
               data   |-> data,
               boot   |-> "none",
               ran    |-> NoMemoryJS]
       /\ thoughtPolicy' = IF failed THEN NewPolicy ELSE LoadPolicy(diskPolicy)
       /\ isTTY' = TRUE
       /\ sessionAllowFS' = FALSE
       /\ exited' = FALSE
       /\ lastReq' = NoRequest
       /\ globalPolicy' = LoadGlobalPolicy(globalFile)
       /\ UNCHANGED <<diskPolicy, globalFile, memoryFile>>

WorkspaceDir == ThoughtDir \o <<"workspace">>
MemoriesDir  == ThoughtDir \o <<"memories">>
WorkDir      == <<"cwd">>

\* BootstrapDefaults adding its entries whatever the policy holds.
bootstrapNeededAlways(policy) == TRUE

\* The guard of BootstrapDefaults: no path entries yet.
bootstrapNeeded(policy) == Len(policy.entries) = 0

\* Approver.BootstrapDefaults(workspaceDir, memoriesDir, workDir): the call
\* runScript makes right after NewApprover, and any further call.
BootstrapDefaults(workspaceDir, memoriesDir, workDir) ==
    LET p1 == AddPathEntry(thoughtPolicy, workspaceDir, RWD, ApprovalAllow, SourceDefault)
        p2 == AddPathEntry(p1, memoriesDir, RWD, ApprovalAllow, SourceDefault)
        p3 == AddPathEntry(p2, workDir, {"r"}, ApprovalAllow, SourceDefault)
        p4 == AddPathEntry(p3, PolicyPath, RWD, ApprovalDeny, SourceDefault)
        target == savePath(ThoughtDir, GlobalPolicyPath)
    IN /\ invocation.phase \in {"loaded", "running"}
       /\ ~exited
       /\ invocation' = [invocation EXCEPT !.phase = "running", !.bootstrapped = TRUE]
       /\ IF bootstrapNeeded(thoughtPolicy)
          THEN /\ thoughtPolicy' = p4
               /\ diskPolicy' = Save(p4, target, PolicyPath, diskPolicy)
               /\ globalFile' = Save(p4, target, GlobalPolicyPath, globalFile)
          ELSE UNCHANGED <<thoughtPolicy, diskPolicy, globalFile>>
       /\ lastReq' = NoRequest
       /\ UNCHANGED <<globalPolicy, sessionAllowFS, isTTY, exited, cache, clock,
                      memoryFile>>

\* What the sandbox of the invocation asks the Approver, and what the user
\* answers when asked.
ThoughtRequests == {<<"read", Shadow>>, <<"write", WorkDir>>}
ThoughtAnswers  == {"once", "always", "interrupt"}

\* One ApprovePath call made through the sandbox's callback.
ThoughtRequest ==
    /\ invocation.phase = "running"
    /\ \E req \in ThoughtRequests, answer \in ThoughtAnswers \cup {"none"} :
           ApprovePath(req[1], req[2], answer)
    /\ UNCHANGED thoughtVars

\* runScript returns, with or without an error: the deferred
\* os.RemoveAll(cacheDir) of the modes off and ephemeral, and the process
\* ends.
EndRun(ok) ==
    /\ invocation.phase = "running"
    /\ ~exited
    /\ invocation' = [invocation EXCEPT !.phase = "ended", !.ok = ok]
    /\ cache' = [cache EXCEPT ![invocation.fp] =
                    IF invocation.mode \in {"off", "ephemeral"} THEN Removed ELSE @]
    /\ thoughtPolicy' = NewPolicy
    /\ sessionAllowFS' = FALSE
    /\ lastReq' = NoRequest
    /\ UNCHANGED <<globalPolicy, diskPolicy, globalFile, isTTY, exited, clock,
                   memoryFile>>

\* Cache directories left by earlier versions and earlier runs: none, or one
\* whose marker carries the fingerprint with a newline after it, or the
\* fingerprint of another script.
First == Fingerprint(<<"print hello">>, <<"think-1">>)
Other == Fingerprint(<<"print hello, then exit">>, <<"think-1">>)

InitialCaches ==
    LET none == [fp \in Fingerprints |-> Removed]
    IN {none,
        [none EXCEPT ![First] = CacheDirState(TRUE, TRUE, First \o <<NL>>, TRUE)],
        [none EXCEPT ![First] = CacheDirState(TRUE, TRUE, Other, TRUE)],
        [none EXCEPT ![First] = CacheDirState(TRUE, FALSE, <<>>, TRUE)]}

\* A thought before its first invocation: no policy.json yet.
ThoughtOnDisk ==
    /\ cache \in InitialCaches
    /\ invocation = NoInvocation
    /\ clock = 0
    /\ memoryFile = NoMemoryJS
    /\ diskPolicy = NoPolicyFile
    /\ globalFile = NoPolicyFile
    /\ thoughtPolicy = NewPolicy
    /\ globalPolicy = [default |-> ApprovalPrompt, entries |-> <<>>, protected |-> <<>>]
    /\ sessionAllowFS = FALSE
    /\ isTTY = FALSE
    /\ exited = FALSE
    /\ lastReq = NoRequest

ThoughtStep ==
    \/ \E in \in RunInputs, mode \in CacheModes, outcome \in StartOutcomes :
           StartRun(in[1], in[2], mode, outcome)
    \/ BootstrapDefaults(WorkspaceDir, MemoriesDir, WorkDir)
    \/ ThoughtRequest
    \/ \E ok \in BOOLEAN : EndRun(ok)

NextThought ==
    ThoughtStep /\ UNCHANGED <<sandboxVars, runVars, promptVars, netVars, matchVars,
                              saveVars>>

InitThought ==
    ThoughtOnDisk /\ IdleSandbox /\ IdleRun /\ IdlePrompt /\ IdleNet /\ IdleMatch
        /\ IdleSave

SpecThought == InitThought /\ [][NextThought]_vars

-----------------------------------------------------------------------------
(* Properties of the cache, the fingerprint and the thought's policy       *)

\* The step is the head of runScript, for one more invocation.
Started == clock' = clock + 1

\* The marker of the cache directory, trimmed, is the fingerprint.
StoredMatches(d, fp) == d.dir /\ d.marker /\ TrimSpace(d.text) = fp

\* The invocation before this one got through runScript without an error,
\* on the same script and binary.
FollowsSuccess == invocation.phase = "ended" /\ invocation.ok
                      /\ invocation.fp = invocation'.fp

\* C15 as stated: a start-up that completes has wiped the cache directory
\* and written the marker again if and only if the stored fingerprint,
\* trimmed, was missing or different; and a run that follows a successful
\* run on the same script and binary finds checkFingerprint true and does
\* not wipe.
C15_WipeIffStale ==
    [][(Started /\ invocation'.phase = "loaded") =>
          LET fp == invocation'.fp
          IN /\ invocation'.wiped <=> ~StoredMatches(cache[fp], fp)
             /\ invocation'.wiped => cache'[fp] = Marked(fp)
             /\ FollowsSuccess => invocation'.check /\ ~invocation'.wiped]_vars

\* C15 amended: in the cache modes persist and ephemeral the start-up wipes
\* the cache directory if and only if the stored fingerprint, trimmed, is
\* missing or differs from the current one, and in the mode off it always
\* wipes it; a start-up that wiped and completed leaves the marker holding
\* the current fingerprint and nothing else in the directory; a run not in
\* the mode off that follows a successful run in the mode persist on the
\* same script and binary finds checkFingerprint true and does not wipe.
C15_WipeIffStaleByMode ==
    [][Started =>
          LET fp == invocation'.fp
              mode == invocation'.mode
          IN /\ mode = "off" => invocation'.wiped
             /\ mode # "off" =>
                    (invocation'.wiped <=> ~StoredMatches(cache[fp], fp))
             /\ (invocation'.wiped /\ invocation'.phase = "loaded")
                    => cache'[fp] = Marked(fp)
             /\ ~invocation'.wiped => cache'[fp] = cache[fp]
             /\ (FollowsSuccess /\ invocation.mode = "persist" /\ mode # "off")
                    => invocation'.check /\ ~invocation'.wiped]_vars

\* The second invocation runs the edited script for the second time: the
\* first one wrote the marker, this one found it and wiped nothing.
C15_Witness ==
    /\ clock = 2
    /\ invocation.fp = Other
    /\ invocation.phase = "loaded"
    /\ invocation.check /\ ~invocation.wiped
    /\ cache[Other] = Marked(Other)

\* Entry i of the thought policy was added by a prompt of an invocation
\* whose fingerprint was not the present one.
GrantedUnderOtherFingerprint(i) ==
    LET e == thoughtPolicy.entries[i]
    IN /\ e.source = SourcePrompt
       /\ e.created \in 1..Len(invocation.fps)
       /\ invocation.fps[e.created] # invocation.fp

\* C16: no request is allowed without the user being asked on the strength
\* of a thought-policy entry that a prompt added under another fingerprint,
\* that is, before the script or the binary changed.
C16_NoStaleApprovals ==
    (lastReq.op # "none" /\ lastReq.verdict = ApprovalAllow /\ ~lastReq.prompted)
        => LET i == MatchPath(thoughtPolicy.entries, lastReq.path)
           IN ~(/\ i # 0
                /\ hasMode(thoughtPolicy.entries[i].mode, opToModeChar(lastReq.op))
                /\ thoughtPolicy.entries[i].approval = ApprovalAllow
                /\ GrantedUnderOtherFingerprint(i))

\* The step is a call of BootstrapDefaults.
Bootstrapping ==
    /\ invocation.phase \in {"loaded", "running"}
    /\ invocation'.phase = "running"
    /\ lastReq' = NoRequest

Orders(entries) ==
    LET n == Len(entries)
    IN {[i \in 1..n |-> entries[f[i]]] :
           f \in {g \in [1..n -> 1..n] : \A i, j \in 1..n : g[i] = g[j] => i = j}}

\* Entry i of the list matches the path and no matching entry is longer.
LongestMatch(entries, i, path) ==
    /\ pathMatches(entries[i].path, path)
    /\ \A j \in 1..Len(entries) :
           pathMatches(entries[j].path, path)
               => PathStrLen(entries[j].path) <= PathStrLen(entries[i].path)

\* C14: for every request, the thought policy's entry that MatchPath picks
\* is one with the longest matching prefix, and what the policy level
\* decides (allow, deny, or nothing) is the same in whatever order its
\* entries stand.
C14_LongestPrefixAnyOrder ==
    \A req \in ThoughtRequests :
        LET entries == thoughtPolicy.entries
            modeChar == opToModeChar(req[1])
            i == MatchPath(entries, req[2])
        IN /\ i # 0 => LongestMatch(entries, i, req[2])
           /\ (\E j \in 1..Len(entries) : pathMatches(entries[j].path, req[2]))
                  => i # 0
           /\ \A other \in Orders(entries) :
                  entriesVerdict(other, req[2], modeChar)
                      = entriesVerdict(entries, req[2], modeChar)

-----------------------------------------------------------------------------
(* internal/sandbox/bridge_net.go: net.fetch, and Approver.ApproveNet      *)

\* A host as the labels between its dots; an IPv6 literal is one label.
\* A URL is what url.Parse makes of the argument: whether it parses, the
\* host and the port.
URL(valid, host, port) == [valid |-> valid, host |-> host, port |-> port]

\* parsedURL.Hostname(): the host without the port (and without the
\* brackets of an IPv6 literal).
Hostname(url) == url.host

\* The value of a decimal label, for the labels the model writes.
Decimal ==
    ("0" :> 0) @@ ("1" :> 1) @@ ("8" :> 8) @@ ("10" :> 10) @@ ("16" :> 16)
    @@ ("31" :> 31) @@ ("32" :> 32) @@ ("127" :> 127) @@ ("168" :> 168)
    @@ ("169" :> 169) @@ ("172" :> 172) @@ ("192" :> 192) @@ ("254" :> 254)

Zeros(n) == [j \in 1..n |-> 0]

\* net.IPv4(a, b, c, d): the 16-byte form of an IPv4 address.
IPv4(a, b, c, d) == Zeros(10) \o <<255, 255, a, b, c, d>>

\* The 16 bytes of the IPv6 literals the model writes.
IPv6Text ==
    ("::1" :> Zeros(15) \o <<1>>)
    @@ ("fe80::1" :> <<254, 128>> \o Zeros(13) \o <<1>>)
    @@ ("ff02::1" :> <<255, 2>> \o Zeros(13) \o <<1>>)
    @@ ("::ffff:10.0.0.1" :> IPv4(10, 0, 0, 1))
    @@ ("2001:db8::1" :> <<32, 1, 13, 184>> \o Zeros(11) \o <<1>>)

\* net.ParseIP(host): four decimal labels or an IPv6 literal give the 16
\* bytes of the address; anything else gives nil, here <<>>.
ParseIP(host) ==
    IF Len(host) = 4 /\ \A j \in 1..4 : host[j] \in DOMAIN Decimal
    THEN IPv4(Decimal[host[1]], Decimal[host[2]], Decimal[host[3]], Decimal[host[4]])
    ELSE IF Len(host) = 1 /\ host[1] \in DOMAIN IPv6Text THEN IPv6Text[host[1]]
    ELSE <<>>

\* ip.To4(): the four bytes of an IPv4 address, nil (<<>>) for any other.
To4(ip) ==
    IF Len(ip) = 16 /\ SubSeq(ip, 1, 10) = Zeros(10) /\ ip[11] = 255 /\ ip[12] = 255
    THEN SubSeq(ip, 13, 16) ELSE <<>>

\* ip.IsLoopback()
IsLoopback(ip) ==
    IF To4(ip) # <<>> THEN To4(ip)[1] = 127 ELSE ip = Zeros(15) \o <<1>>

\* ip.IsLinkLocalUnicast(): 169.254/16 and fe80::/10.
IsLinkLocalUnicast(ip) ==
    IF To4(ip) # <<>> THEN To4(ip)[1] = 169 /\ To4(ip)[2] = 254
    ELSE ip[1] = 254 /\ ip[2] \div 64 = 2

\* ip.IsLinkLocalMulticast(): 224.0.0/24 and ff02::/16.
IsLinkLocalMulticast(ip) ==
    IF To4(ip) # <<>> THEN To4(ip)[1] = 224 /\ To4(ip)[2] = 0 /\ To4(ip)[3] = 0
    ELSE ip[1] = 255 /\ ip[2] % 16 = 2

\* isPrivateIP without the test for 172.16.0.0/12.
isPrivateIPBut172(ip) ==
    IF ip = <<>> THEN FALSE
    ELSE \/ IsLoopback(ip)
         \/ IsLinkLocalUnicast(ip) \/ IsLinkLocalMulticast(ip)
         \/ /\ To4(ip) # <<>>
            /\ LET ip4 == To4(ip)
               IN \/ ip4[1] = 10
                  \/ ip4[1] = 192 /\ ip4[2] = 168
                  \/ ip4[1] = 127

\* isPrivateIP(ip)
isPrivateIP(ip) ==
    IF ip = <<>> THEN FALSE
    ELSE \/ IsLoopback(ip)
         \/ IsLinkLocalUnicast(ip) \/ IsLinkLocalMulticast(ip)
         \/ /\ To4(ip) # <<>>
            /\ LET ip4 == To4(ip)
               IN \/ ip4[1] = 10
                  \/ ip4[1] = 172 /\ ip4[2] >= 16 /\ ip4[2] <= 31
                  \/ ip4[1] = 192 /\ ip4[2] = 168
                  \/ ip4[1] = 127

\* A HostEntry literal; Created is left out.
HostEntry(host, approval, source) ==
    [host |-> host, approval |-> approval, source |-> source]

\* hostMatches(pattern, host): the same text, or a pattern "*.rest" and a
\* host that ends in ".rest".
hostMatches(pattern, host) ==
    \/ pattern = host
    \/ /\ Len(pattern) >= 2 /\ pattern[1] = "*"
       /\ Len(host) >= Len(pattern)
       /\ SubSeq(host, Len(host) - Len(pattern) + 2, Len(host)) = Tail(pattern)

\* HostPolicy.MatchHost from entry i on: the index of the first entry that
\* matches, 0 for nil.
RECURSIVE MatchHostFrom(_, _, _)
MatchHostFrom(entries, host, i) ==
    IF i > Len(entries) THEN 0
    ELSE IF hostMatches(entries[i].host, host) THEN i
    ELSE MatchHostFrom(entries, host, i + 1)

MatchHost(entries, host) == MatchHostFrom(entries, host, 1)

\* One level of ApproveNet: the first matching entry decides if it says
\* allow or deny.
hostsVerdict(entries, host) ==
    LET i == MatchHost(entries, host)
    IN IF i # 0 /\ entries[i].approval \in {ApprovalAllow, ApprovalDeny}
       THEN entries[i].approval ELSE "none"

\* ApproveNet up to the prompt: "allow", "deny", or "prompt" when the user
\* has to be asked.
netDecision(host) ==
    LET tv == hostsVerdict(netApprover.thoughtHosts.entries, host)
        gv == hostsVerdict(netApprover.globalHosts.entries, host)
    IN IF netApprover.sessionAllowNet THEN ApprovalAllow
       ELSE IF tv # "none" THEN tv
       ELSE IF gv # "none" THEN gv
       ELSE IF netApprover.thoughtHosts.default \in {ApprovalAllow, ApprovalDeny}
            THEN netApprover.thoughtHosts.default
       ELSE IF netApprover.globalHosts.default \in {ApprovalAllow, ApprovalDeny}
            THEN netApprover.globalHosts.default
       ELSE IF ~netApprover.isTTY THEN ApprovalDeny
       ELSE "prompt"

\* Host entries the user may add by answering prompts.
MaxHostEntries == 1

promptHostEntries ==
    Cardinality({i \in 1..Len(netApprover.thoughtHosts.entries) :
                    netApprover.thoughtHosts.entries[i].source = SourcePrompt})

\* The Approver after the user answered the prompt for the host.
afterNetPrompt(host, answer) ==
    LET added(approval) ==
            [netApprover.thoughtHosts EXCEPT
                !.entries = Append(@, HostEntry(host, approval, SourcePrompt))]
    IN CASE answer = "always" ->
              [netApprover EXCEPT !.thoughtHosts = added(ApprovalAllow),
                                  !.diskHosts = added(ApprovalAllow)]
         [] answer = "deny" ->
              [netApprover EXCEPT !.thoughtHosts = added(ApprovalDeny),
                                  !.diskHosts = added(ApprovalDeny)]
         [] answer = "session" -> [netApprover EXCEPT !.sessionAllowNet = TRUE]
         [] answer = "interrupt" -> [netApprover EXCEPT !.exited = TRUE]
         [] OTHER -> netApprover

\* What net.LookupIP returns: an error, or addresses.
Lookup(err, ips) == [err |-> err, ips |-> ips]

NoLookup == Lookup(TRUE, {})

\* A net.fetch call as the script observes it, with whether cfg.ApproveNet
\* was called and whether the user was asked.
Fetch(url, result, asked, prompted, answer) ==
    [url |-> url, result |-> result, asked |-> asked, prompted |-> prompted,
     answer |-> answer]

\* What the resolver answers for a name.
Lookups ==
    { NoLookup, Lookup(FALSE, {IPv4(8, 8, 8, 8)}),
      Lookup(FALSE, {IPv4(8, 8, 8, 8), IPv4(10, 0, 0, 1)}) }

\* The call after the private-address checks: cfg.ApproveNet with its
\* prompt, then the request, which works or fails.
fetchChecked(url, private) ==
    LET host  == Hostname(url)
        stops == ~url.valid \/ private \/ ~netApprover.wired
        asks  == ~stops /\ netDecision(host) = "prompt"
    IN \E answer \in IF asks THEN PromptAnswers ELSE {"none"} :
          LET allowed == ~stops /\ (netDecision(host) = ApprovalAllow
                            \/ (asks /\ answer \in {"once", "session", "always"}))
          IN \E http \in IF allowed THEN {"fetched", "request failed"} ELSE {"none"} :
                /\ answer \in {"always", "deny"} => promptHostEntries < MaxHostEntries
                /\ netApprover' = IF asks THEN afterNetPrompt(host, answer)
                                  ELSE netApprover
                /\ lastFetch' =
                       Fetch(url,
                             CASE ~url.valid -> "invalid URL"
                               [] url.valid /\ private -> "private IP"
                               [] url.valid /\ ~private /\ ~netApprover.wired ->
                                      "no approval handler"
                               [] allowed -> http
                               [] asks /\ answer = "interrupt" -> "exit"
                               [] asks /\ answer = "lockerr" -> "error"
                               [] OTHER -> "denied",
                             ~stops, asks, answer)

\* net.fetch(url) up to the HTTP request: url.Parse, then the
\* private-address check on the literal or on what net.LookupIP gives for
\* the name, then the rest of the call.
fetch(url) ==
    /\ ~netApprover.exited
    /\ IF url.valid /\ ParseIP(Hostname(url)) = <<>>
       THEN \E lookup \in Lookups :
               fetchChecked(url, ~lookup.err /\ \E a \in lookup.ips : isPrivateIP(a))
       ELSE fetchChecked(url, url.valid /\ isPrivateIP(ParseIP(Hostname(url))))

\* The URLs the script fetches.
PrivateLiterals ==
    { <<"127", "0", "0", "1">>, <<"10", "0", "0", "1">>,
      <<"172", "16", "0", "1">>, <<"172", "31", "0", "1">>,
      <<"192", "168", "1", "1">>, <<"169", "254", "169", "254">>,
      <<"::1">>, <<"fe80::1">>, <<"::ffff:10.0.0.1">> }

PublicHosts ==
    { <<"8", "8", "8", "8">>, <<"172", "32", "0", "1">>, <<"2001:db8::1">>,
      <<"example", "com">>, <<"127", "1">> }

FetchURLs ==
    {URL(TRUE, host, "") : host \in PrivateLiterals \cup PublicHosts}
        \cup {URL(TRUE, <<"127", "0", "0", "1">>, "8080"), URL(FALSE, <<>>, "")}

\* sandbox.New with or without cfg.ApproveNet; behind it an Approver as
\* NewApprover leaves it.
NetCreated ==
    /\ netApprover \in
          {[wired |-> w, isTTY |-> t, sessionAllowNet |-> FALSE, exited |-> FALSE,
            thoughtHosts |-> [default |-> dflt, entries |-> es],
            diskHosts |-> [default |-> dflt, entries |-> es],
            globalHosts |-> [default |-> ApprovalPrompt, entries |-> gs]] :
              w \in BOOLEAN, t \in BOOLEAN, dflt \in Approvals,
              es \in {<<>>, <<HostEntry(<<"*", "com">>, ApprovalDeny, SourceConfig)>>},
              gs \in {<<>>, <<HostEntry(<<"example", "com">>, ApprovalAllow,
                                        SourceConfig)>>}}
    /\ lastFetch = NoFetch

NextNet ==
    /\ \E url \in FetchURLs : fetch(url)
    /\ UNCHANGED <<approvalVars, sandboxVars, runVars, promptVars, thoughtVars,
                   matchVars, saveVars>>

InitNet ==
    /\ NetCreated /\ IdleApproval /\ IdleSandbox /\ IdleRun /\ IdlePrompt
    /\ IdleThought /\ IdleMatch /\ IdleSave

SpecNet == InitNet /\ [][NextNet]_vars

-----------------------------------------------------------------------------
(* Properties of net.fetch                                                 *)

\* C17: a net.fetch whose URL has a literal loopback, private or link-local
\* address as host throws the private-IP error without cfg.ApproveNet being
\* called and without a prompt, and leaves the Approver -- its policies in
\* memory and on disk and its session flag -- as it was, whatever the
\* Approver holds.
C17_PrivateLiteralNeverAsked ==
    [][(lastFetch'.result # "none" /\ lastFetch'.url.valid
        /\ lastFetch'.url.host \in PrivateLiterals)
         => (/\ lastFetch'.result = "private IP"
             /\ ~lastFetch'.asked
             /\ ~lastFetch'.prompted
             /\ netApprover' = netApprover)]_vars

\* After the user allowed the network for the session, a fetch of
\* http://10.0.0.1/ was refused and ApproveNet was not called.
C17_Witness ==
    /\ netApprover.wired /\ netApprover.sessionAllowNet
    /\ lastFetch.result = "private IP"
    /\ lastFetch.url = URL(TRUE, <<"10", "0", "0", "1">>, "")
    /\ ~lastFetch.asked

-----------------------------------------------------------------------------
(* policy.go on its own: pathMatches and MatchPath on one policy level,    *)
(* and what ApprovePath makes of the entry found                           *)

Cwd2 == <<"cwd2">>
CwdF == WorkDir \o <<"f">>
Root == <<>>

\* Entries a policy level may hold.
MatchEntryPool ==
    { PathEntry(WorkDir, {"r"}, ApprovalAllow, SourceDefault),
      PathEntry(WorkDir, {"w"}, ApprovalDeny, SourcePrompt),
      PathEntry(CwdF, {"r"}, ApprovalDeny, SourceConfig),
      PathEntry(Etc, RWD, ApprovalAllow, SourceConfig),
      PathEntry(Shadow, {"r"}, ApprovalDeny, SourceConfig),
      PathEntry(Root, {"r"}, ApprovalAllow, SourceConfig) }

\* Entries of one policy level.
MaxMatchEntries == 2

\* The lists of at most n entries of the pool.
RECURSIVE EntryLists(_, _)
EntryLists(pool, n) ==
    IF n = 0 THEN {<<>>}
    ELSE EntryLists(pool, n - 1)
             \cup {Append(l, e) : l \in EntryLists(pool, n - 1), e \in pool}

MatchPaths == {WorkDir, Cwd2, CwdF, Etc, Shadow}
MatchOps   == {"read", "write"}

\* A policy level and a request to look up in it.
MatchCall(called, entries, op, path, matches, idx, verdict) ==
    [called |-> called, entries |-> entries, op |-> op, path |-> path,
     matches |-> matches, idx |-> idx, verdict |-> verdict]

MatchLoaded ==
    \E es \in EntryLists(MatchEntryPool, MaxMatchEntries),
       op \in MatchOps, path \in MatchPaths :
        matchCall = MatchCall(FALSE, es, op, path, <<>>, 0, "none")

\* pathMatches on every entry, MatchPath, and the policy-level step of
\* ApprovePath, on the level and the request at hand.
LookUp ==
    /\ ~matchCall.called
    /\ matchCall' =
          [matchCall EXCEPT
              !.called = TRUE,
              !.matches = [j \in 1..Len(matchCall.entries) |->
                              pathMatches(matchCall.entries[j].path, matchCall.path)],
              !.idx = MatchPath(matchCall.entries, matchCall.path),
              !.verdict = entriesVerdict(matchCall.entries, matchCall.path,
                                         opToModeChar(matchCall.op))]

NextMatch ==
    LookUp /\ UNCHANGED <<approvalVars, sandboxVars, runVars, promptVars,
                          thoughtVars, netVars, saveVars>>

InitMatch ==
    /\ MatchLoaded /\ IdleApproval /\ IdleSandbox /\ IdleRun /\ IdlePrompt
    /\ IdleThought /\ IdleNet /\ IdleSave

SpecMatch == InitMatch /\ [][NextMatch]_vars

-----------------------------------------------------------------------------
(* Properties of pathMatches and MatchPath                                 *)

\* s is p, or lies under the directory p: p's string followed by "/" starts
\* s.  The root's string is "/" itself, which followed by "/" starts nothing.
SameOrUnder(s, p) ==
    \/ s = p
    \/ /\ p # <<>>
       /\ Len(s) > Len(p)
       /\ \A j \in 1..Len(p) : s[j] = p[j]

\* C21: a pattern matches the path that equals it and the paths under it as
\* a directory, and no other: not a path whose string merely starts with
\* the pattern's (/cwd does not match /cwd2).
C21_MatchesSelfAndBelow ==
    matchCall.called =>
        \A j \in 1..Len(matchCall.entries) :
            matchCall.matches[j]
                <=> SameOrUnder(matchCall.path, matchCall.entries[j].path)

\* The pattern /cwd has been tried on /cwd2 and did not match.
C21_Witness ==
    /\ matchCall.called
    /\ matchCall.path = Cwd2
    /\ Len(matchCall.entries) = 1
    /\ matchCall.entries[1].path = WorkDir
    /\ matchCall.matches = <<FALSE>>
    /\ matchCall.idx = 0

\* The entries of a list that carry a mode character, in the list's order.
RECURSIVE WithMode(_, _)
WithMode(entries, modeChar) ==
    IF entries = <<>> THEN <<>>
    ELSE IF hasMode(Head(entries).mode, modeChar)
         THEN <<Head(entries)>> \o WithMode(Tail(entries), modeChar)
         ELSE WithMode(Tail(entries), modeChar)

\* C24: the verdict of a policy level on a path request with mode character
\* m is that of the longest matching entry among the entries whose mode
\* contains m; a longer matching entry without m hides nothing.
C24_LongestAmongModeCarriers ==
    matchCall.called =>
        LET m == opToModeChar(matchCall.op)
            carriers == WithMode(matchCall.entries, m)
            longest == {i \in 1..Len(carriers) :
                           LongestMatch(carriers, i, matchCall.path)}
        IN IF longest = {} THEN matchCall.verdict = "none"
           ELSE \E i \in longest :
                   matchCall.verdict =
                      IF carriers[i].approval \in {ApprovalAllow, ApprovalDeny}
                      THEN carriers[i].approval ELSE "none"

-----------------------------------------------------------------------------
(* The global policy is read-only                                          *)

\* C22: no approval request, prompt answer or bootstrap call changes the
\* global policy, in the Approver or in <home>/policy.json; what is
\* persisted goes to the thought's policy.json.
C22_GlobalPolicyReadOnly ==
    [][/\ globalPolicy' = globalPolicy
       /\ globalFile' = globalFile
       /\ thoughtPolicy' # thoughtPolicy /\ invocation'.phase = "running"
              => diskPolicy' = thoughtPolicy']_vars

\* The defaults of BootstrapDefaults and an answer "always" have been saved
\* in the thought's policy.json, and there is still no global policy file.
C22_Witness ==
    /\ Len(diskPolicy.entries) = 5
    /\ diskPolicy.entries[1].source = SourceDefault
    /\ diskPolicy.entries[5].source = SourcePrompt
    /\ lastReq.answer = "always"
    /\ globalFile = NoPolicyFile
    /\ globalPolicy = LoadGlobalPolicy(NoPolicyFile)

-----------------------------------------------------------------------------
(* Cache mode off                                                          *)

\* The invocation is over: runScript has returned or the process is gone.
RunOver == invocation.phase = "ended" \/ (invocation.phase # "none" /\ exited)

\* C23: with cache mode off the cache directory of the fingerprint is wiped
\* before the run and again when the run ends, in success or in error, and
\* no cache handling removes the thought's policy.json.
C23_OffWipesBeforeAndAfter ==
    [][/\ Started /\ invocation'.mode = "off" => invocation'.wiped
       /\ RunOver' /\ invocation'.mode = "off" => cache'[invocation'.fp] = Removed
       /\ diskPolicy # NoPolicyFile => diskPolicy' # NoPolicyFile]_vars

-----------------------------------------------------------------------------
(* The answer "session"                                                    *)

\* The step is an ApprovePath call made after the user answered "session"
\* to a path prompt of the run.
AfterSession == sessionAllowFS /\ lastReq'.op \in ReqOps

\* C25 as stated: after the answer "session" every path request is allowed
\* without a prompt, except that one hitting the policy.json guard or
\* covered by a protected deny entry with the mode is denied.
C25_SessionAllowsButDenied ==
    [][AfterSession =>
          /\ ~lastReq'.prompted
          /\ lastReq'.verdict =
                IF \/ policyGuard(lastReq'.path)
                   \/ ProtectedDenyCovers(lastReq'.op, lastReq'.path)
                THEN ApprovalDeny ELSE ApprovalAllow]_vars

\* C25 amended: ... or covered by a protected deny entry with the mode that
\* no protected allow entry covering the request precedes.
C25_SessionAllowsButFirstDenied ==
    [][AfterSession =>
          /\ ~lastReq'.prompted
          /\ UNCHANGED <<thoughtPolicy, diskPolicy, sessionAllowFS, exited>>
          /\ lastReq'.verdict =
                IF \/ policyGuard(lastReq'.path)
                   \/ ProtectedDenyFirst(lastReq'.op, lastReq'.path)
                THEN ApprovalDeny ELSE ApprovalAllow]_vars

\* After a "session" answer a read of /etc/shadow was allowed unasked
\* although the thought policy holds a deny entry for it, made by an earlier
\* answer "deny".
C25_Witness ==
    /\ sessionAllowFS
    /\ lastReq.op = "read" /\ lastReq.path = Shadow
    /\ lastReq.verdict = ApprovalAllow /\ ~lastReq.prompted
    /\ protectedVerdict(Shadow, "r") = "none"
    /\ \E i \in 1..Len(thoughtPolicy.entries) :
           /\ thoughtPolicy.entries[i].path = Shadow
           /\ thoughtPolicy.entries[i].mode = {"r"}
           /\ thoughtPolicy.entries[i].approval = ApprovalDeny

-----------------------------------------------------------------------------
(* The answer "always"                                                     *)

\* The thought policy holds the entry that an answer "always" to this
\* request has left.
GrantedAlways(op, path) ==
    \E i \in 1..Len(thoughtPolicy.entries) :
        /\ thoughtPolicy.entries[i].path = path
        /\ thoughtPolicy.entries[i].mode = {opToModeChar(op)}
        /\ thoughtPolicy.entries[i].approval = ApprovalAllow
        /\ thoughtPolicy.entries[i].source = SourcePrompt

\* C26: once the user has answered "always" to a request, every later
\* identical request, in that run and in later ones, is allowed and nothing
\* is asked, whatever else the thought policy held at the time.
C26_AlwaysIsNeverAskedAgain ==
    [][\A req \in ThoughtRequests :
          (/\ GrantedAlways(req[1], req[2])
           /\ lastReq'.op = req[1] /\ lastReq'.path = req[2])
              => /\ ~lastReq'.prompted
                 /\ lastReq'.verdict = ApprovalAllow]_vars

-----------------------------------------------------------------------------
(* The conversation of the agent loop                                      *)

\* The step ends a turn whose tools were all executed: the loop over
\* toolUses is left and not through the return on an aborting error.
TurnDone ==
    /\ pc = "exec" /\ pc' # "exec"
    /\ ~Aborting(outcomes'[Len(outcomes')])

\* C27: a turn in which tools were executed has added to the conversation
\* the assistant message and after it one user message, which holds one
\* tool_result per tool_use of the reply, in the reply's order and with the
\* ids of its tool_use blocks; nothing else is added on the way.
C27_TurnAddsReplyAndResults ==
    [][/\ (pc = "chat" /\ pc' = "exec") =>
             /\ messages' = Append(messages, Message("assistant", "tool_use"))
             /\ resultBlocks' = <<>>
       /\ (pc = "exec" /\ pc' = "exec") => messages' = messages
       /\ TurnDone =>
             /\ messages[Len(messages)] = Message("assistant", "tool_use")
             /\ messages' = Append(messages, Message("user", "tool_result"))
             /\ Len(messages') = 2 * providerCalls + 1
             /\ Len(resultBlocks') = Len(toolUses)
             /\ \A j \in 1..Len(toolUses) :
                    /\ resultBlocks'[j].id = j
                    /\ resultBlocks'[j].isError = (outcomes'[j].err # "nil")]_vars

\* A second turn is about to start after a turn with two tools, one of
\* which failed: the conversation is the prompt, the reply and the results.
C27_Witness ==
    /\ pc = "chat" /\ providerCalls = 1
    /\ Len(toolUses) = 2
    /\ messages = <<messages[1], Message("assistant", "tool_use"),
                    Message("user", "tool_result")>>
    /\ resultBlocks = <<ToolResultBlock(1, "result", FALSE),
                        ToolResultBlock(2, "error", TRUE)>>

-----------------------------------------------------------------------------
(* Policy.Save and os.WriteFile, one system call at a time                 *)

\* policy.json with a complete document.
PolicyFile(perm, entries) ==
    [exists |-> TRUE, perm |-> perm, complete |-> TRUE, entries |-> entries]

\* Entries a saved thought policy may hold.
SaveEntryPool ==
    { PathEntry(WorkDir, {"r"}, ApprovalAllow, SourceDefault),
      PathEntry(Shadow, {"r"}, ApprovalAllow, SourcePrompt) }

SaveDocs == EntryLists(SaveEntryPool, 2)

\* Saves in one behaviour.
MaxSaves == 2

\* os.OpenFile(name, O_WRONLY|O_CREATE|O_TRUNC, perm) as os.WriteFile calls
\* it: a new file gets perm, an old one keeps its mode and loses its content.
OpenTrunc(file, perm) ==
    [exists |-> TRUE, perm |-> IF file.exists THEN file.perm ELSE perm,
     complete |-> FALSE, entries |-> <<>>]

\* f.Write(data) having written all of data.
Written(file, entries) == [file EXCEPT !.complete = TRUE, !.entries = entries]

\* LoadPolicy(path): what os.ReadFile and json.Unmarshal make of the file.
LoadResult(file) ==
    IF ~file.exists THEN "not exist"
    ELSE IF ~file.complete THEN "corrupted"
    ELSE "loaded"

\* Policy.Save up to the open of os.WriteFile: MkdirAll, MarshalIndent and
\* OpenFile, which truncates.
SaveOpen(entries) ==
    /\ saving.pc = "idle"
    /\ saving.saves < MaxSaves
    /\ saving' = [saving EXCEPT !.pc = "writing",
                                !.data = entries,
                                !.prev = saving.file,
                                !.file = OpenTrunc(saving.file, "0600"),
                                !.saves = @ + 1]

\* The rest of os.WriteFile: Write and Close; a failed Write leaves the
\* file as the open left it.
SaveWrite(ok) ==
    /\ saving.pc = "writing"
    /\ saving' = [saving EXCEPT !.pc = "idle",
                                !.file = IF ok THEN Written(@, saving.data) ELSE @]

\* The saving process is killed between the open and the write.
Kill ==
    /\ saving.pc = "writing"
    /\ saving' = [saving EXCEPT !.pc = "dead"]

\* loadPolicies of an invocation of the thought: another one while this
\* one runs, or the next one after it has died.
Load ==
    /\ saving' = [saving EXCEPT !.read = LoadResult(saving.file),
                                !.pc = IF @ = "dead" THEN "idle" ELSE @]
    /\ saving'.read # saving.read \/ saving.pc = "dead"

\* The policy.json an invocation finds: none, or one saved earlier.
SaveStarted ==
    \E file \in {NoFile} \cup {PolicyFile("0600", d) : d \in SaveDocs} :
        saving = [pc |-> "idle", file |-> file, data |-> <<>>, prev |-> file,
                  saves |-> 0, read |-> "none"]

SaveStep ==
    \/ \E entries \in SaveDocs : SaveOpen(entries)
    \/ \E ok \in BOOLEAN : SaveWrite(ok)
    \/ Kill
    \/ Load

NextSave ==
    SaveStep /\ UNCHANGED <<approvalVars, sandboxVars, runVars, promptVars,
                            thoughtVars, netVars, matchVars>>

InitSave ==
    /\ SaveStarted /\ IdleApproval /\ IdleSandbox /\ IdleRun /\ IdlePrompt
    /\ IdleThought /\ IdleNet /\ IdleMatch

SpecSave == InitSave /\ [][NextSave]_vars

\* C28: once a save of policy.json has begun, the file holds at every
\* moment the complete document it held before or the complete new one,
\* with mode 0600, also when the saving process has been killed, and every
\* process that reads it gets a policy.
C28_SaveIsAtomic ==
    saving.saves > 0 =>
        /\ saving.file.exists /\ saving.file.complete
        /\ saving.file.perm = "0600"
        /\ \/ saving.file.entries = saving.data
           \/ saving.prev.exists /\ saving.file.entries = saving.prev.entries
        /\ saving.read # "corrupted"

-----------------------------------------------------------------------------
(* Release of the prompt lock                                              *)

\* Invocation p holds a prompt lock.
HoldsLock(p) == \E path \in DOMAIN flock : flock[path] = p

\* The step ends a prompt of p: the choice was made, or the process ended
\* in the interruption, or prompt returned the lock error.
PromptEnds(p) ==
    /\ prompter[p].at \in {"run", "form"}
    /\ \/ prompter'[p].prompts = prompter[p].prompts + 1
       \/ prompter'[p].at = "exit"

-----------------------------------------------------------------------------
(* runScript: memory.js of the thought over successive invocations         *)

\* What the run of memory.js comes to: it handles the invocation, or asks
\* for the agent, or fails; "absent" when os.Stat finds no memory.js.
MemoryOutcomes == {"success", "resume", "error"}

\* "Try memory.js first": os.Stat(memoryJSPath) and, if the file is there,
\* its run in the sandbox; anything but a success hands over to the agent.
RunMemoryJS(outcome) ==
    /\ invocation.phase = "running"
    /\ invocation.boot = "none"
    /\ ~exited
    /\ IF memoryFile.exists THEN outcome \in MemoryOutcomes ELSE outcome = "absent"
    /\ invocation' = [invocation EXCEPT
                         !.ran = memoryFile,
                         !.boot = IF outcome = "success" THEN "memory.js" ELSE "agent"]
    /\ UNCHANGED <<approvalVars, cache, clock, memoryFile>>

\* The agent writes memory.js for the script it was given, through
\* fs.writeFile of run_script: memoryJSPath is in WritablePaths.
WriteMemoryJS ==
    /\ invocation.phase = "running"
    /\ invocation.boot = "agent"
    /\ ~exited
    /\ memoryFile # [exists |-> TRUE, data |-> invocation.data]
    /\ memoryFile' = [exists |-> TRUE, data |-> invocation.data]
    /\ UNCHANGED <<approvalVars, cache, clock, invocation>>

MemoryStep ==
    \/ \E in \in RunInputs, mode \in CacheModes, outcome \in StartOutcomes :
           StartRun(in[1], in[2], mode, outcome)
    \/ BootstrapDefaults(WorkspaceDir, MemoriesDir, WorkDir)
    \/ \E outcome \in MemoryOutcomes \cup {"absent"} : RunMemoryJS(outcome)
    \/ WriteMemoryJS
    \/ \E ok \in BOOLEAN : EndRun(ok)

NextMemory ==
    MemoryStep /\ UNCHANGED <<sandboxVars, runVars, promptVars, netVars, matchVars,
                              saveVars>>

InitMemory ==
    ThoughtOnDisk /\ IdleSandbox /\ IdleRun /\ IdlePrompt /\ IdleNet /\ IdleMatch
        /\ IdleSave

SpecMemory == InitMemory /\ [][NextMemory]_vars

\* C30: the memory.js an invocation executes was written for the script
\* bytes the invocation was started on; after an edit of the script the
\* stored memory.js is gone with the cache and the agent handles the run.
C30_MemoryJSMatchesScript ==
    invocation.ran.exists => invocation.ran.data = invocation.data

====
